---------------------------- MODULE Spec2Model ----------------------------
(***************************************************************************)
(* Model of the Roth Forth compiler: IR data model, IR lowering, the IR    *)
(* optimizer (five passes iterated to a fixed point), the runtime stack    *)
(* machine, the code shape emitted by the REPL generator, and the REPL     *)
(* compile-load-execute loop.                                              *)
(***************************************************************************)
EXTENDS Integers, Sequences, FiniteSets, TLC

(***************************************************************************)
(* Bounds of the model                                                     *)
(***************************************************************************)
MaxLen == 3
MaxNest == 11
MaxCycle == 5
MaxTurns == 3
MaxStack == 3
Fuel == 60
MaxBound == 3

(***************************************************************************)
(* Sequence helpers (0-based indices, as in the Rust code)                 *)
(***************************************************************************)
At(s, i) == s[i + 1]

RemoveAt(s, i) == SubSeq(s, 1, i) \o SubSeq(s, i + 2, Len(s))

SetAt(s, i, v) == [s EXCEPT ![i + 1] = v]

InsertAt(s, i, t) == SubSeq(s, 1, i) \o t \o SubSeq(s, i + 1, Len(s))

Front(s) == SubSeq(s, 1, Len(s) - 1)

Last(s) == s[Len(s)]

\* F(v) with v evaluated once
Eval(v, F(_)) == CHOOSE y \in {F(x) : x \in {v}} : TRUE

RECURSIVE SumSeq(_)
SumSeq(s) == IF s = <<>> THEN 0 ELSE s[1] + SumSeq(Tail(s))

RECURSIVE SeqsUpTo(_, _)
SeqsUpTo(A, n) ==
    IF n = 0 THEN {<<>>}
    ELSE LET shorter == SeqsUpTo(A, n - 1)
         IN shorter \cup {Append(s, a) : s \in {t \in shorter : Len(t) = n - 1}, a \in A}

(***************************************************************************)
(* IR instructions (ir.rs IRInstruction).  op is the variant; n and m are  *)
(* integer payloads (constant, label id, second label id); s is the        *)
(* string payload (call target, variable name, label name hint).           *)
(***************************************************************************)
Ins(op, n, m, s) == [op |-> op, n |-> n, m |-> m, s |-> s]

Push(n) == Ins("Push", n, 0, "")
LoadConst(n) == Ins("LoadConst", n, 0, "")
Op(o) == Ins(o, 0, 0, "")
Call(name) == Ins("Call", 0, 0, name)
Label(id, hint) == Ins("Label", id, 0, hint)
Jump(id, hint) == Ins("Jump", id, 0, hint)
JumpIf(id, hint) == Ins("JumpIf", id, 0, hint)
JumpIfNot(id, hint) == Ins("JumpIfNot", id, 0, hint)
DoLoop(a, b) == Ins("DoLoop", a, b, "")
Loop(a) == Ins("Loop", a, 0, "loop_start")
Load(v) == Ins("Load", 0, 0, v)
Store(v) == Ins("Store", 0, 0, v)
Comment(t) == Ins("Comment", 0, 0, t)
Return == Op("Return")
Nop == Op("Nop")

\* Push(IRValue::Constant(a)) | LoadConst(a)
IsConst(i) == i.op \in {"Push", "LoadConst"}

IsConstN(i, k) == IsConst(i) /\ i.n = k

\* two labels are equal only if both components match (ir.rs IRLabel)
SameLabel(i, j) == i.n = j.n /\ i.s = j.s

(***************************************************************************)
(* Static stack effect of one instruction (derive(StackEffect) in ir.rs).  *)
(* Variants without an attribute default to consumes = 0, produces = 0.    *)
(***************************************************************************)
stack_effect(i) ==
    CASE i.op \in {"Push", "Load", "PushLoopIndex", "PushLoopLimit", "ReadChar",
                   "LoadConst", "BinaryOp", "UnaryOp", "StackGet"}
            -> [consumes |-> 0, produces |-> 1]
      [] i.op \in {"Pop", "Drop", "Store", "JumpIf", "JumpIfNot", "Print", "PrintChar"}
            -> [consumes |-> 1, produces |-> 0]
      [] i.op = "Dup" -> [consumes |-> 1, produces |-> 2]
      [] i.op \in {"Swap", "Over"} -> [consumes |-> 2, produces |-> 2]
      [] i.op = "Rot" -> [consumes |-> 3, produces |-> 3]
      [] i.op \in {"Add", "Sub", "Mul", "Div", "Mod", "Equal", "NotEqual", "Less",
                   "Greater", "LessEqual", "GreaterEqual", "And", "Or"}
            -> [consumes |-> 2, produces |-> 1]
      [] i.op \in {"Neg", "Not"} -> [consumes |-> 1, produces |-> 1]
      [] i.op \in {"DoLoop", "PrintString"} -> [consumes |-> 2, produces |-> 0]
      [] OTHER -> [consumes |-> 0, produces |-> 0]

\* StackEffectAnalyzer::analyze_function: stack_depth after the last
\* instruction, i.e. the sum of produces minus consumes over the instructions.
RECURSIVE stack_depth(_)
stack_depth(instrs) ==
    IF instrs = <<>> THEN 0
    ELSE LET e == stack_effect(instrs[1])
         IN (e.produces - e.consumes) + stack_depth(Tail(instrs))

(***************************************************************************)
(* Rust integer operators used by the compiler and the runtime.  Division  *)
(* truncates toward zero and the remainder takes the sign of the dividend. *)
(***************************************************************************)
Abs(x) == IF x < 0 THEN -x ELSE x

TruncDiv(a, b) ==
    IF (a >= 0) = (b > 0) THEN Abs(a) \div Abs(b) ELSE -(Abs(a) \div Abs(b))

TruncRem(a, b) == a - b * TruncDiv(a, b)

Flag(c) == IF c THEN -1 ELSE 0

\* two's-complement bitwise operators on signed integers
RECURSIVE BitAnd(_, _)
BitAnd(a, b) ==
    IF a = 0 \/ b = 0 THEN 0
    ELSE IF a = -1 THEN b
    ELSE IF b = -1 THEN a
    ELSE (a % 2) * (b % 2) + 2 * BitAnd(a \div 2, b \div 2)

BitNot(a) == -a - 1

BitOr(a, b) == BitNot(BitAnd(BitNot(a), BitNot(b)))

BitXor(a, b) == BitAnd(BitOr(a, b), BitNot(BitAnd(a, b)))

(***************************************************************************)
(* Constant folding pass (ir_optimizer.rs ConstantFoldingPass)             *)
(***************************************************************************)
None == [some |-> FALSE, v |-> Nop]
Some(i) == [some |-> TRUE, v |-> i]

try_fold_binary_op(op, a, b) ==
    CASE op.op = "Add" -> Some(LoadConst(a + b))
      [] op.op = "Sub" -> Some(LoadConst(a - b))
      [] op.op = "Mul" -> Some(LoadConst(a * b))
      [] op.op = "Div" /\ b # 0 -> Some(LoadConst(TruncDiv(a, b)))
      [] op.op = "Mod" /\ b # 0 -> Some(LoadConst(TruncRem(a, b)))
      [] op.op = "Equal" -> Some(LoadConst(Flag(a = b)))
      [] op.op = "NotEqual" -> Some(LoadConst(Flag(a # b)))
      [] op.op = "Less" -> Some(LoadConst(Flag(a < b)))
      [] op.op = "Greater" -> Some(LoadConst(Flag(a > b)))
      [] op.op = "LessEqual" -> Some(LoadConst(Flag(a <= b)))
      [] op.op = "GreaterEqual" -> Some(LoadConst(Flag(a >= b)))
      [] op.op = "And" -> Some(LoadConst(Flag(a # 0 /\ b # 0)))
      [] op.op = "Or" -> Some(LoadConst(Flag(a # 0 \/ b # 0)))
      [] OTHER -> None

try_fold_unary_op(op, a) ==
    CASE op.op = "Neg" -> Some(LoadConst(-a))
      [] op.op = "Not" -> Some(LoadConst(Flag(a = 0)))
      [] OTHER -> None

\* indices (0-based) of the next non-comment instructions at or after `from`,
\* at most `want` of them
RECURSIVE next_indices(_, _, _)
next_indices(ins, from, want) ==
    IF from >= Len(ins) \/ want = 0 THEN <<>>
    ELSE IF At(ins, from).op # "Comment"
         THEN <<from>> \o next_indices(ins, from + 1, want - 1)
         ELSE next_indices(ins, from + 1, want)

\* the while loop of ConstantFoldingPass::optimize_function; steps counts
\* the loop iterations
RECURSIVE FoldLoop(_, _, _, _)
FoldLoop(ins, i, changed, steps) ==
    IF i >= Len(ins) THEN [ins |-> ins, changed |-> changed, steps |-> steps]
    ELSE IF At(ins, i).op = "Comment" THEN FoldLoop(ins, i + 1, changed, steps + 1)
    ELSE
      LET nx == next_indices(ins, i + 1, 2)
          bin == IF Len(nx) >= 2 /\ IsConst(At(ins, i)) /\ IsConst(At(ins, nx[1]))
                 THEN try_fold_binary_op(At(ins, nx[2]), At(ins, i).n, At(ins, nx[1]).n)
                 ELSE None
          un == IF Len(nx) >= 1 /\ IsConst(At(ins, i))
                THEN try_fold_unary_op(At(ins, nx[1]), At(ins, i).n)
                ELSE None
      IN IF bin.some
         THEN FoldLoop(RemoveAt(RemoveAt(SetAt(ins, i, bin.v), nx[2]), nx[1]),
                       i, TRUE, steps + 1)
         ELSE IF un.some
         THEN FoldLoop(RemoveAt(SetAt(ins, i, un.v), nx[1]), i, TRUE, steps + 1)
         ELSE FoldLoop(ins, i + 1, changed, steps + 1)

ConstantFolding_optimize_function(ins) == FoldLoop(ins, 0, FALSE, 0)

(***************************************************************************)
(* Dead code elimination pass (DeadCodeEliminationPass)                    *)
(***************************************************************************)
RECURSIVE DceLoop(_, _, _, _)
DceLoop(ins, i, changed, steps) ==
    IF i >= Len(ins) THEN [ins |-> ins, changed |-> changed, steps |-> steps]
    ELSE
      LET cur == At(ins, i)
          followedByDrop == i + 1 < Len(ins) /\ At(ins, i + 1).op = "Drop"
          should_remove ==
              CASE cur.op = "Nop" -> TRUE
                [] cur.op \in {"Push", "LoadConst"} -> followedByDrop
                [] cur.op = "Dup" -> followedByDrop
                [] OTHER -> FALSE
      IN IF should_remove
         THEN IF cur.op \in {"Push", "LoadConst", "Dup"}
              THEN DceLoop(RemoveAt(RemoveAt(ins, i), i), i, TRUE, steps + 1)
              ELSE DceLoop(RemoveAt(ins, i), i, TRUE, steps + 1)
         ELSE DceLoop(ins, i + 1, changed, steps + 1)

\* the pass with a removal that takes out the value but leaves its Drop
RECURSIVE DceLoopKeepDrop(_, _)
DceLoopKeepDrop(ins, i) ==
    IF i >= Len(ins) THEN ins
    ELSE IF \/ At(ins, i).op = "Nop"
            \/ /\ At(ins, i).op \in {"Push", "LoadConst", "Dup"}
               /\ i + 1 < Len(ins) /\ At(ins, i + 1).op = "Drop"
         THEN DceLoopKeepDrop(RemoveAt(ins, i), i)
         ELSE DceLoopKeepDrop(ins, i + 1)

DeadCodeElimination_keep_drop(ins) ==
    [ins |-> DceLoopKeepDrop(ins, 0), changed |-> DceLoopKeepDrop(ins, 0) # ins,
     steps |-> Len(ins)]

DeadCodeElimination_optimize_function(ins) == DceLoop(ins, 0, FALSE, 0)

(***************************************************************************)
(* Peephole pass (PeepholeOptimizationPass)                                *)
(***************************************************************************)
RECURSIVE PeepLoop(_, _, _, _)
PeepLoop(ins, i, changed, steps) ==
    IF i >= Len(ins) THEN [ins |-> ins, changed |-> changed, steps |-> steps]
    ELSE
      LET has3 == i + 2 < Len(ins)
          has2 == i + 1 < Len(ins)
          p1 == has3 /\ IsConst(At(ins, i)) /\ At(ins, i + 1).op = "Dup"
                     /\ At(ins, i + 2).op = "Add"
          p2 == has3 /\ IsConst(At(ins, i)) /\ IsConst(At(ins, i + 1))
                     /\ At(ins, i + 2).op = "Swap"
          p3 == has2 /\ At(ins, i).op = "Dup" /\ At(ins, i + 1).op = "Drop"
          p4 == has2 /\ At(ins, i).op = "Swap" /\ At(ins, i + 1).op = "Swap"
      IN IF p1
         THEN PeepLoop(RemoveAt(RemoveAt(SetAt(ins, i, LoadConst(At(ins, i).n * 2)),
                                         i + 1), i + 1),
                       i, TRUE, steps + 1)
         ELSE IF p2
         THEN PeepLoop(RemoveAt(SetAt(SetAt(ins, i, LoadConst(At(ins, i + 1).n)),
                                      i + 1, LoadConst(At(ins, i).n)), i + 2),
                       i, TRUE, steps + 1)
         ELSE IF p3 \/ p4
         THEN PeepLoop(SetAt(SetAt(ins, i, Nop), i + 1, Nop), i, TRUE, steps + 1)
         ELSE PeepLoop(ins, i + 1, changed, steps + 1)

Peephole_optimize_function(ins) == PeepLoop(ins, 0, FALSE, 0)

(***************************************************************************)
(* Strength reduction pass (StrengthReductionPass)                         *)
(***************************************************************************)
RECURSIVE StrengthLoop(_, _, _, _)
StrengthLoop(ins, i, changed, steps) ==
    IF i >= Len(ins) THEN [ins |-> ins, changed |-> changed, steps |-> steps]
    ELSE
      LET has2 == i + 1 < Len(ins)
          zeroAdd == has2 /\ IsConstN(At(ins, i), 0) /\ At(ins, i + 1).op = "Add"
          oneMul == has2 /\ IsConstN(At(ins, i), 1) /\ At(ins, i + 1).op = "Mul"
          zeroMul == has2 /\ IsConstN(At(ins, i), 0) /\ At(ins, i + 1).op = "Mul"
          \* the third pattern rewrites in place and falls through to the fourth
          ins3 == IF zeroMul THEN SetAt(SetAt(ins, i, Op("Drop")), i + 1, LoadConst(0))
                  ELSE ins
          twoMul == has2 /\ IsConstN(At(ins3, i), 2) /\ At(ins3, i + 1).op = "Mul"
          ins4 == IF twoMul THEN SetAt(SetAt(ins3, i, Op("Dup")), i + 1, Op("Add"))
                  ELSE ins3
      IN IF zeroAdd \/ oneMul
         THEN StrengthLoop(RemoveAt(RemoveAt(ins, i), i), i, TRUE, steps + 1)
         ELSE StrengthLoop(ins4, i + 1, changed \/ zeroMul \/ twoMul, steps + 1)

StrengthReduction_optimize_function(ins) == StrengthLoop(ins, 0, FALSE, 0)

(***************************************************************************)
(* Function inlining pass (FunctionInliningPass)                           *)
(***************************************************************************)
max_inline_size == 20

\* is_inlinable without the control-flow test
is_inlinable_with_jumps(name, ins) ==
    /\ ~(Len(ins) > max_inline_size)
    /\ \A k \in 1..Len(ins) : ~(ins[k].op = "Call" /\ ins[k].s = name)

is_inlinable(name, ins) ==
    /\ ~(Len(ins) > max_inline_size)
    /\ \A k \in 1..Len(ins) :
          /\ ~(ins[k].op = "Call" /\ ins[k].s = name)
          /\ ins[k].op \notin {"Jump", "JumpIf", "JumpIfNot", "Label"}

get_inline_body(ins) == SelectSeq(ins, LAMBDA x : x.op # "Return")

\* name -> body of every inlinable function of the program
inlinable_functions(program) ==
    LET names == {f \in DOMAIN program.functions : is_inlinable(f, program.functions[f])}
    IN [f \in names |-> get_inline_body(program.functions[f])]

RECURSIVE InlineLoop(_, _, _, _, _)
InlineLoop(ins, i, changed, steps, inl) ==
    IF i >= Len(ins) THEN [ins |-> ins, changed |-> changed, steps |-> steps]
    ELSE IF At(ins, i).op = "Call" /\ At(ins, i).s \in DOMAIN inl
         THEN LET body == inl[At(ins, i).s]
              IN InlineLoop(InsertAt(RemoveAt(ins, i), i, body), i + Len(body),
                            TRUE, steps + 1, inl)
         ELSE InlineLoop(ins, i + 1, changed, steps + 1, inl)

inline_in_function(ins, inl) == InlineLoop(ins, 0, FALSE, 0, inl)

(***************************************************************************)
(* The pipeline (IROptimizer::new) and optimize_program of each pass:      *)
(* the pass is applied to main and to every function of the table.         *)
(***************************************************************************)
passes == <<"FunctionInlining", "ConstantFolding", "Peephole",
            "StrengthReduction", "DeadCodeElimination">>

optimize_function(pass, ins, program) ==
    CASE pass = "FunctionInlining" -> inline_in_function(ins, inlinable_functions(program))
      [] pass = "ConstantFolding" -> ConstantFolding_optimize_function(ins)
      [] pass = "Peephole" -> Peephole_optimize_function(ins)
      [] pass = "StrengthReduction" -> StrengthReduction_optimize_function(ins)
      [] pass = "DeadCodeElimination" -> DeadCodeElimination_optimize_function(ins)

RECURSIVE SumSteps(_, _)
SumSteps(fs, S) ==
    IF S = {} THEN 0
    ELSE LET f == CHOOSE x \in S : TRUE
         IN fs[f].steps + SumSteps(fs, S \ {f})

optimize_program(pass, program) ==
    LET m == optimize_function(pass, program.main, program)
        fs == [f \in DOMAIN program.functions |->
                  optimize_function(pass, program.functions[f], program)]
    IN [program |-> [main |-> m.ins, functions |-> [f \in DOMAIN fs |-> fs[f].ins]],
        changed |-> m.changed \/ \E f \in DOMAIN fs : fs[f].changed,
        steps |-> m.steps + SumSteps(fs, DOMAIN fs)]

\* total number of instructions of a program
RECURSIVE TotalLen(_, _)
TotalLen(program, S) ==
    IF S = {} THEN Len(program.main)
    ELSE LET f == CHOOSE x \in S : TRUE
         IN Len(program.functions[f]) + TotalLen(program, S \ {f})

program_size(program) == TotalLen(program, DOMAIN program.functions)

max_iterations == 10

\* one run of the pass pipeline (the for loop of IROptimizer::optimize)
RECURSIVE run_passes(_, _, _)
run_passes(program, k, any_changed) ==
    IF k > Len(passes) THEN [program |-> program, any_changed |-> any_changed]
    ELSE Eval(optimize_program(passes[k], program),
              LAMBDA r : run_passes(r.program, k + 1, any_changed \/ r.changed))

\* IROptimizer::optimize as a function of the program
RECURSIVE optimize_from(_, _)
optimize_from(program, iteration) ==
    IF iteration + 1 > max_iterations THEN program
    ELSE Eval(run_passes(program, 1, FALSE),
              LAMBDA r : IF ~r.any_changed THEN r.program
                         ELSE optimize_from(r.program, iteration + 1))

optimize(program) == optimize_from(program, 0)

(***************************************************************************)
(* Runtime context (roth-runtime context.rs) and builtins (builtins.rs).   *)
(* A result is the context after the call and Ok or the error kind.  A     *)
(* builtin that fails after popping leaves the popped values removed.      *)
(***************************************************************************)
DEFAULT_MAX_STACK_SIZE == 10000

EmptyFn == [x \in {} |-> 0]

\* RuntimeContext::new; out (text written to stdout), calls (word functions
\* invoked through call_word) and fuel (remaining execution steps) are
\* bookkeeping of the model
RuntimeContext_new ==
    [stack |-> <<>>, rstack |-> <<>>, memory |-> EmptyFn, words |-> EmptyFn,
     max_stack_size |-> DEFAULT_MAX_STACK_SIZE, loc |-> "",
     out |-> <<>>, calls |-> <<>>, fuel |-> Fuel]

R(ctx, res) == [ctx |-> ctx, res |-> res]

check_overflow(ctx) == ctx.max_stack_size > 0 /\ Len(ctx.stack) >= ctx.max_stack_size

push(ctx, v) ==
    IF check_overflow(ctx) THEN R(ctx, "StackOverflow")
    ELSE R([ctx EXCEPT !.stack = Append(@, v)], "Ok")

\* pop k values; with fewer than k on the stack the successful pops empty it
PopN(ctx, k) ==
    IF Len(ctx.stack) >= k
    THEN R([ctx EXCEPT !.stack = SubSeq(@, 1, Len(@) - k)], "Ok")
    ELSE R([ctx EXCEPT !.stack = IF k = 1 THEN @ ELSE <<>>], "StackUnderflow")

Top(ctx, n) == ctx.stack[Len(ctx.stack) - n]

\* ( a b -- F(a, b) ): pop b, pop a, push
BinOp(ctx, F(_, _)) ==
    LET p == PopN(ctx, 2)
    IN IF p.res # "Ok" THEN p ELSE push(p.ctx, F(Top(ctx, 1), Top(ctx, 0)))

\* ( a -- F(a) )
UnOp(ctx, F(_)) ==
    LET p == PopN(ctx, 1)
    IN IF p.res # "Ok" THEN p ELSE push(p.ctx, F(Top(ctx, 0)))

dup(ctx) == IF Len(ctx.stack) = 0 THEN R(ctx, "StackUnderflow") ELSE push(ctx, Top(ctx, 0))

drop_top(ctx) == PopN(ctx, 1)

swap(ctx) ==
    LET p == PopN(ctx, 2)
    IN IF p.res # "Ok" THEN p
       ELSE push([p.ctx EXCEPT !.stack = Append(@, Top(ctx, 0))], Top(ctx, 1))

over(ctx) == IF Len(ctx.stack) < 2 THEN R(ctx, "StackUnderflow") ELSE push(ctx, Top(ctx, 1))

rot(ctx) ==
    LET p == PopN(ctx, 3)
    IN IF p.res # "Ok" THEN p
       ELSE push([p.ctx EXCEPT !.stack = @ \o <<Top(ctx, 1), Top(ctx, 0)>>], Top(ctx, 2))

\* ( a b c -- c a b ): c and a go back unchecked, b through push
rot_rev(ctx) ==
    LET p == PopN(ctx, 3)
    IN IF p.res # "Ok" THEN p
       ELSE push([p.ctx EXCEPT !.stack = @ \o <<Top(ctx, 0), Top(ctx, 2)>>], Top(ctx, 1))

nip(ctx) ==
    LET p == PopN(ctx, 2)
    IN IF p.res # "Ok" THEN p ELSE push(p.ctx, Top(ctx, 0))

\* ( a b -- b a b ): b and a go back unchecked, the copy of b through push
tuck(ctx) ==
    LET p == PopN(ctx, 2)
    IN IF p.res # "Ok" THEN p
       ELSE push([p.ctx EXCEPT !.stack = @ \o <<Top(ctx, 0), Top(ctx, 1)>>], Top(ctx, 0))

\* ( a b -- a b a b ): peeks both, self.stack.push(a) unchecked, then push(b)
dup2(ctx) ==
    IF Len(ctx.stack) < 2 THEN R(ctx, "StackUnderflow")
    ELSE push([ctx EXCEPT !.stack = Append(@, Top(ctx, 1))], Top(ctx, 0))

drop2(ctx) == PopN(ctx, 2)

\* ( a b c d -- c d a b )
swap2(ctx) ==
    LET p == PopN(ctx, 4)
    IN IF p.res # "Ok" THEN p
       ELSE push([p.ctx EXCEPT !.stack = @ \o <<Top(ctx, 1), Top(ctx, 0), Top(ctx, 3)>>],
                 Top(ctx, 2))

\* ( a b c d -- a b c d a b ): self.stack.push(a) unchecked, then push(b)
over2(ctx) ==
    IF Len(ctx.stack) < 4 THEN R(ctx, "StackUnderflow")
    ELSE push([ctx EXCEPT !.stack = Append(@, Top(ctx, 3))], Top(ctx, 2))

dup_if_nonzero(ctx) ==
    IF Len(ctx.stack) = 0 THEN R(ctx, "StackUnderflow")
    ELSE IF Top(ctx, 0) # 0 THEN push(ctx, Top(ctx, 0))
    ELSE R(ctx, "Ok")

\* n is cast to usize: a negative n is larger than any stack
pick(ctx) ==
    LET p == PopN(ctx, 1)
        n == Top(ctx, 0)
    IN IF p.res # "Ok" THEN p
       ELSE IF n < 0 \/ n >= Len(p.ctx.stack) THEN R(p.ctx, "StackUnderflow")
       ELSE push(p.ctx, Top(p.ctx, n))

roll(ctx) ==
    LET p == PopN(ctx, 1)
        n == Top(ctx, 0)
        len == Len(p.ctx.stack)
    IN IF p.res # "Ok" THEN p
       ELSE IF n < 0 \/ n >= len THEN R(p.ctx, "StackUnderflow")
       ELSE push([p.ctx EXCEPT !.stack = RemoveAt(@, len - 1 - n)], Top(p.ctx, n))

add(ctx) == BinOp(ctx, LAMBDA a, b : a + b)
sub(ctx) == BinOp(ctx, LAMBDA a, b : a - b)
mul(ctx) == BinOp(ctx, LAMBDA a, b : a * b)

div(ctx) ==
    LET p == PopN(ctx, 2)
    IN IF p.res # "Ok" THEN p
       ELSE IF Top(ctx, 0) = 0 THEN R(p.ctx, "DivisionByZero")
       ELSE push(p.ctx, TruncDiv(Top(ctx, 1), Top(ctx, 0)))

modulo(ctx) ==
    LET p == PopN(ctx, 2)
    IN IF p.res # "Ok" THEN p
       ELSE IF Top(ctx, 0) = 0 THEN R(p.ctx, "DivisionByZero")
       ELSE push(p.ctx, TruncRem(Top(ctx, 1), Top(ctx, 0)))

negate(ctx) == UnOp(ctx, LAMBDA a : -a)

inc(ctx) == UnOp(ctx, LAMBDA a : a + 1)

dec(ctx) == UnOp(ctx, LAMBDA a : a - 1)

eq(ctx) == BinOp(ctx, LAMBDA a, b : Flag(a = b))
ne(ctx) == BinOp(ctx, LAMBDA a, b : Flag(a # b))
lt(ctx) == BinOp(ctx, LAMBDA a, b : Flag(a < b))
gt(ctx) == BinOp(ctx, LAMBDA a, b : Flag(a > b))
le(ctx) == BinOp(ctx, LAMBDA a, b : Flag(a <= b))
ge(ctx) == BinOp(ctx, LAMBDA a, b : Flag(a >= b))

zero_eq(ctx) == UnOp(ctx, LAMBDA a : Flag(a = 0))

zero_lt(ctx) == UnOp(ctx, LAMBDA a : Flag(a < 0))

zero_gt(ctx) == UnOp(ctx, LAMBDA a : Flag(a > 0))

and(ctx) == BinOp(ctx, LAMBDA a, b : BitAnd(a, b))
or(ctx) == BinOp(ctx, LAMBDA a, b : BitOr(a, b))
xor(ctx) == BinOp(ctx, LAMBDA a, b : BitXor(a, b))

invert(ctx) == UnOp(ctx, LAMBDA a : BitNot(a))

print_top(ctx) ==
    LET p == PopN(ctx, 1)
    IN IF p.res # "Ok" THEN p
       ELSE R([p.ctx EXCEPT !.out = Append(@, <<"num", Top(ctx, 0)>>)], "Ok")

print_stack(ctx) ==
    R([ctx EXCEPT !.out = @ \o <<<<"depth", Len(ctx.stack)>>>>
                            \o [k \in 1..Len(ctx.stack) |-> <<"num", ctx.stack[k]>>]],
      "Ok")

\* char::from_u32(c as u32) for the values of this model: the surrogate
\* range and everything above 0x10FFFF (every negative c) is invalid
emit(ctx) ==
    LET p == PopN(ctx, 1)
        c == Top(ctx, 0)
    IN IF p.res # "Ok" THEN p
       ELSE IF c >= 0 /\ c < 55296
            THEN R([p.ctx EXCEPT !.out = Append(@, <<"chr", c>>)], "Ok")
            ELSE R(p.ctx, "RuntimeError")

store(ctx, var) ==
    LET p == PopN(ctx, 1)
    IN IF p.res # "Ok" THEN p
       ELSE R([p.ctx EXCEPT !.memory =
                  [v \in DOMAIN @ \cup {var} |-> IF v = var THEN Top(ctx, 0) ELSE @[v]]],
              "Ok")

fetch(ctx, var) ==
    IF var \notin DOMAIN ctx.memory THEN R(ctx, "InvalidMemoryAccess")
    ELSE push(ctx, ctx.memory[var])

\* +!: the value is popped before the variable is looked up
add_store(ctx, var) ==
    LET p == PopN(ctx, 1)
    IN IF p.res # "Ok" THEN p
       ELSE IF var \notin DOMAIN ctx.memory THEN R(p.ctx, "InvalidMemoryAccess")
       ELSE R([p.ctx EXCEPT !.memory[var] = @ + Top(ctx, 0)], "Ok")

declare_variable(ctx, name) ==
    IF name \in DOMAIN ctx.memory THEN ctx
    ELSE [ctx EXCEPT !.memory = [v \in DOMAIN @ \cup {name} |-> IF v = name THEN 0 ELSE @[v]]]

\* register_word that keeps an entry already present (entry().or_insert)
register_word_keep(ctx, name, func) ==
    IF name \in DOMAIN ctx.words THEN ctx
    ELSE [ctx EXCEPT !.words = [w \in DOMAIN @ \cup {name} |-> IF w = name THEN func ELSE @[w]]]

register_word(ctx, name, func) ==
    [ctx EXCEPT !.words = [w \in DOMAIN @ \cup {name} |-> IF w = name THEN func ELSE @[w]]]

(***************************************************************************)
(* Code emitted by the REPL generator (repl/codegen.rs), given by what it  *)
(* does when run.  generate_instruction translates one instruction into    *)
(* runtime calls; ls is the function-local loop_stack of (index, limit).   *)
(***************************************************************************)
X(r, ls) == [ctx |-> r.ctx, res |-> r.res, ls |-> ls]

generate_instruction(i, ctx, ls) ==
    CASE i.op \in {"Push", "LoadConst"} -> X(push(ctx, i.n), ls)
      [] i.op = "Pop" -> X(PopN(ctx, 1), ls)
      [] i.op = "Dup" -> X(dup(ctx), ls)
      [] i.op = "Drop" -> X(drop_top(ctx), ls)
      [] i.op = "Swap" -> X(swap(ctx), ls)
      [] i.op = "Over" -> X(over(ctx), ls)
      [] i.op = "Rot" -> X(rot(ctx), ls)
      [] i.op = "Add" -> X(add(ctx), ls)
      [] i.op = "Sub" -> X(sub(ctx), ls)
      [] i.op = "Mul" -> X(mul(ctx), ls)
      [] i.op = "Div" -> X(div(ctx), ls)
      [] i.op = "Mod" -> X(modulo(ctx), ls)
      [] i.op = "Neg" -> X(negate(ctx), ls)
      [] i.op = "Equal" -> X(eq(ctx), ls)
      [] i.op = "NotEqual" -> X(ne(ctx), ls)
      [] i.op = "Less" -> X(lt(ctx), ls)
      [] i.op = "Greater" -> X(gt(ctx), ls)
      [] i.op = "LessEqual" -> X(le(ctx), ls)
      [] i.op = "GreaterEqual" -> X(ge(ctx), ls)
      [] i.op = "And" -> X(and(ctx), ls)
      [] i.op = "Or" -> X(or(ctx), ls)
      [] i.op = "Not" -> X(invert(ctx), ls)
      [] i.op = "Load" -> X(fetch(ctx, i.s), ls)
      [] i.op = "Store" -> X(store(ctx, i.s), ls)
      [] i.op = "Print" -> X(print_top(ctx), ls)
      [] i.op = "PrintStack" -> X(print_stack(ctx), ls)
      [] i.op = "PrintChar" -> X(emit(ctx), ls)
      [] i.op = "PrintString" -> X(PopN(ctx, 2), ls)
      [] i.op = "DoLoop" ->
            \* start = pop, limit = pop; the pair is pushed and popped again
            \* when start >= limit; control is not transferred
            LET p == PopN(ctx, 2)
                start == Top(ctx, 0)
                limit == Top(ctx, 1)
            IN IF p.res # "Ok" THEN X(p, ls)
               ELSE X(p, IF start >= limit THEN ls ELSE Append(ls, <<start, limit>>))
      [] i.op = "Loop" ->
            \* increments the innermost index and pops the pair at the limit;
            \* control is not transferred
            IF ls = <<>> THEN X(R(ctx, "Ok"), ls)
            ELSE LET idx == Last(ls)[1] + 1
                     limit == Last(ls)[2]
                 IN IF idx >= limit THEN X(R(ctx, "Ok"), Front(ls))
                    ELSE X(R(ctx, "Ok"), Append(Front(ls), <<idx, limit>>))
      [] i.op = "PushLoopIndex" ->
            IF ls = <<>> THEN X(R(ctx, "RuntimeError"), ls)
            ELSE X(push(ctx, Last(ls)[1]), ls)
      [] i.op = "PushLoopLimit" ->
            IF ls = <<>> THEN X(R(ctx, "RuntimeError"), ls)
            ELSE X(push(ctx, Last(ls)[2]), ls)
      [] OTHER -> X(R(ctx, "Ok"), ls)   \* Label, Comment, Nop: a comment or nothing

\* generate_state_machine: the state a jump selects starts right after the
\* Label instruction of its label; a label that is not placed in the
\* function resolves to state 0, the start of the function
label_to_state(code, j) ==
    LET placed == {k \in 1..Len(code) : code[k].op = "Label" /\ SameLabel(code[k], j)}
    IN IF placed = {} THEN 0
       ELSE CHOOSE k \in placed : \A k2 \in placed : k2 <= k

\* one emitted program image: the word functions, the entry point's main
\* code and the exported list of defined words (ReplCodegen::generate)
generate(program) ==
    [funcs |-> program.functions, main |-> program.main,
     defined_words |-> DOMAIN program.functions]

\* generate_function_body / generate_state_machine, one instruction at a
\* time: exec_step runs the instruction at position pc (0-based) and says
\* where control goes; halt is set when the function returns or fails
RECURSIVE generate_function_body(_, _, _, _, _)
RECURSIVE call_word(_, _, _)

Step(pc, ctx, ls, res, halt) ==
    [pc |-> pc, ctx |-> ctx, ls |-> ls, res |-> res, halt |-> halt]

exec_step(code, pc, ctx, ls, libs) ==
    LET i == At(code, pc)
    IN CASE i.op = "Return" -> Step(pc, ctx, ls, "Ok", TRUE)
         [] i.op = "Jump" -> Step(label_to_state(code, i), ctx, ls, "Ok", FALSE)
         [] i.op \in {"JumpIf", "JumpIfNot"} ->
              LET p == PopN(ctx, 1)
                  cond == Top(ctx, 0)
                  taken == IF i.op = "JumpIf" THEN cond # 0 ELSE cond = 0
              IN IF p.res # "Ok" THEN Step(pc, p.ctx, ls, p.res, TRUE)
                 ELSE Step(IF taken THEN label_to_state(code, i) ELSE pc + 1,
                           p.ctx, ls, "Ok", FALSE)
         [] i.op = "Call" ->
              LET r == call_word(i.s, ctx, libs)
              IN Step(pc + 1, r.ctx, ls, r.res, r.res # "Ok")
         [] OTHER ->
              LET r == generate_instruction(i, ctx, ls)
              IN Step(pc + 1, r.ctx, r.ls, r.res, r.res # "Ok")

\* the function body run from position pc to its end; fuel bounds the
\* number of instructions run
generate_function_body(code, pc, ctx, ls, libs) ==
    IF ctx.fuel = 0 THEN R(ctx, "Timeout")
    ELSE IF pc >= Len(code) THEN R(ctx, "Ok")
    ELSE Eval(exec_step(code, pc, [ctx EXCEPT !.fuel = @ - 1], ls, libs),
              LAMBDA s : IF s.halt THEN R(s.ctx, s.res)
                         ELSE generate_function_body(code, s.pc, s.ctx, s.ls, libs))

\* call_word that leaves current_location as the called word set it
call_word_no_restore(name, ctx, libs) ==
    IF name \notin DOMAIN ctx.words THEN R(ctx, "UndefinedWord")
    ELSE
      LET func == ctx.words[name]
          entered == [ctx EXCEPT !.loc = name, !.calls = Append(@, func)]
      IN generate_function_body(libs[func.lib].funcs[func.fn], 0,
                                [entered EXCEPT !.loc = func.fn], <<>>, libs)

\* a registered word function is a pointer [lib, fn] into a loaded library;
\* generate_word_function sets the current word and runs the body
call_word(name, ctx, libs) ==
    IF name \notin DOMAIN ctx.words THEN R(ctx, "UndefinedWord")
    ELSE
      LET func == ctx.words[name]
          prev_location == ctx.loc
          entered == [ctx EXCEPT !.loc = name, !.calls = Append(@, func)]
          r == generate_function_body(libs[func.lib].funcs[func.fn], 0,
                                      [entered EXCEPT !.loc = func.fn], <<>>, libs)
      IN R([r.ctx EXCEPT !.loc = prev_location], r.res)

\* RECURSIVE helper: register the words of a set one by one
RECURSIVE register_all(_, _, _)
register_all(ctx, names, lib) ==
    IF names = {} THEN ctx
    ELSE LET w == CHOOSE x \in names : TRUE
         IN register_all(register_word(ctx, w, [lib |-> lib, fn |-> w]), names \ {w}, lib)

\* generate_entry_point_with_registration: __repl_entry of library number
\* lib registers every defined word except "main", then runs the main code
repl_entry(lib, ctx, libs) ==
    generate_function_body(libs[lib].main, 0,
                           register_all(ctx, libs[lib].defined_words \ {"main"}, lib),
                           <<>>, libs)

(***************************************************************************)
(* Lexer (lexer.rs).  An input line is a sequence of lexemes, the maximal  *)
(* runs of characters that next_token reads as one token.                  *)
(***************************************************************************)
\* Strings are atomic in the model.  Chars gives the characters of the
\* lexemes whose characters matter, the numerals of more than one character;
\* a one-digit numeral is its own character, and any other lexeme stands as a
\* single character that is neither a digit nor a sign.
Chars(s) ==
    CASE s = "+7" -> <<"+", "7">>
      [] s = "2147483647" -> <<"2", "1", "4", "7", "4", "8", "3", "6", "4", "7">>
      [] s = "2147483648" -> <<"2", "1", "4", "7", "4", "8", "3", "6", "4", "8">>
      [] s = "-2147483648" -> <<"-", "2", "1", "4", "7", "4", "8", "3", "6", "4", "8">>
      [] s = "-2147483649" -> <<"-", "2", "1", "4", "7", "4", "8", "3", "6", "4", "9">>
      [] s = "999999999999999999999" ->
            <<"9", "9", "9", "9", "9", "9", "9", "9", "9", "9", "9",
              "9", "9", "9", "9", "9", "9", "9", "9", "9", "9">>
      [] OTHER -> <<s>>

Digits == <<"0", "1", "2", "3", "4", "5", "6", "7", "8", "9">>

IsDigit(c) == \E k \in 1..10 : Digits[k] = c

DigitValue(c) == (CHOOSE k \in 1..10 : Digits[k] = c) - 1

I32_MAX == 2147483647

PI(ok, n) == [ok |-> ok, n |-> n]

\* the digit loop of i32::from_str from character k on: the value is built
\* with checked multiplication and addition (subtraction after a '-'), and
\* a step that would leave the i32 range is an error
RECURSIVE parse_digits(_, _, _, _)
parse_digits(chars, k, acc, neg) ==
    IF k > Len(chars) THEN PI(TRUE, acc)
    ELSE IF ~IsDigit(chars[k]) THEN PI(FALSE, 0)
    ELSE LET d == DigitValue(chars[k])
         IN IF neg
            THEN IF acc < ((-I32_MAX - 1) + d + 9) \div 10 THEN PI(FALSE, 0)
                 ELSE parse_digits(chars, k + 1, acc * 10 - d, neg)
            ELSE IF acc > (I32_MAX - d) \div 10 THEN PI(FALSE, 0)
                 ELSE parse_digits(chars, k + 1, acc * 10 + d, neg)

\* str::parse::<i32>: an optional sign, then at least one digit
from_str(chars) ==
    IF chars = <<>> THEN PI(FALSE, 0)
    ELSE IF chars[1] \in {"+", "-"}
    THEN IF Len(chars) = 1 THEN PI(FALSE, 0)
         ELSE parse_digits(chars, 2, 0, chars[1] = "-")
    ELSE parse_digits(chars, 1, 0, FALSE)

\* token_str.parse::<i32>()
parse_i32(s) == from_str(Chars(s))

to_uppercase(s) ==
    CASE s = "d" -> "D"
      [] s = "a" -> "A"
      [] s = "dup" -> "DUP"
      [] OTHER -> s

Tok(t, n, w) == [t |-> t, n |-> n, w |-> w]

\* Lexer::next_token with read_token; a lexeme that starts with ')' makes
\* read_token fail on an empty token string
next_token(lexeme) ==
    CASE lexeme = "(c)" -> [ok |-> TRUE, tok |-> Tok("Comment", 0, "c")]
      [] lexeme = ":" -> [ok |-> TRUE, tok |-> Tok("StartDefinition", 0, "")]
      [] lexeme = ";" -> [ok |-> TRUE, tok |-> Tok("EndDefinition", 0, "")]
      [] lexeme = ")" -> [ok |-> FALSE, tok |-> Tok("", 0, "")]
      [] OTHER ->
            IF parse_i32(lexeme).ok
            THEN [ok |-> TRUE, tok |-> Tok("Number", parse_i32(lexeme).n, "")]
            ELSE [ok |-> TRUE, tok |-> Tok("Word", 0, to_uppercase(lexeme))]

\* Lexer::tokenize: the first failing token aborts
tokenize(input) ==
    IF \E k \in 1..Len(input) : ~next_token(input[k]).ok
    THEN [ok |-> FALSE, tokens |-> <<>>]
    ELSE [ok |-> TRUE, tokens |-> [k \in 1..Len(input) |-> next_token(input[k]).tok]]

(***************************************************************************)
(* Parser (parser.rs).  AST nodes are Number, Word and Definition.         *)
(***************************************************************************)
Number(n) == [t |-> "Number", n |-> n, w |-> "", body |-> <<>>]
Word(w) == [t |-> "Word", n |-> 0, w |-> w, body |-> <<>>]
Definition(name, body) == [t |-> "Definition", n |-> 0, w |-> name, body |-> body]
VariableDeclaration(name) ==
    [t |-> "VariableDeclaration", n |-> 0, w |-> name, body |-> <<>>]

PR(ok, node, pos) == [ok |-> ok, node |-> node, pos |-> pos]

\* the body loop of Parser::parse_definition from position pos: the end of
\* the input closes the definition like ';' does
RECURSIVE parse_body(_, _, _, _)
parse_body(tokens, pos, name, body) ==
    IF pos >= Len(tokens) THEN PR(TRUE, Definition(name, body), pos)
    ELSE LET tk == At(tokens, pos)
         IN CASE tk.t = "EndDefinition" -> PR(TRUE, Definition(name, body), pos + 1)
              [] tk.t = "StartDefinition" -> PR(FALSE, Number(0), pos)
              [] tk.t = "Comment" -> parse_body(tokens, pos + 1, name, body)
              [] tk.t = "Number" ->
                    parse_body(tokens, pos + 1, name, Append(body, Number(tk.n)))
              [] OTHER -> parse_body(tokens, pos + 1, name, Append(body, Word(tk.w)))

parse_definition(tokens, pos) ==
    IF pos + 1 >= Len(tokens) THEN PR(FALSE, Number(0), pos)
    ELSE IF At(tokens, pos + 1).t # "Word" THEN PR(FALSE, Number(0), pos)
    ELSE parse_body(tokens, pos + 2, At(tokens, pos + 1).w, <<>>)

\* Parser::parse_statement at a token that is not a comment
parse_statement(tokens, pos) ==
    LET tk == At(tokens, pos)
    IN CASE tk.t = "Number" -> PR(TRUE, Number(tk.n), pos + 1)
         [] tk.t = "Word" -> PR(TRUE, Word(tk.w), pos + 1)
         [] tk.t = "StartDefinition" -> parse_definition(tokens, pos)
         [] OTHER -> PR(FALSE, Number(0), pos)

\* Parser::parse: the nodes of the Program, or the first error
RECURSIVE parse_from(_, _, _)
parse_from(tokens, pos, nodes) ==
    IF pos >= Len(tokens) THEN [ok |-> TRUE, nodes |-> nodes]
    ELSE IF At(tokens, pos).t = "Comment" THEN parse_from(tokens, pos + 1, nodes)
    ELSE LET r == parse_statement(tokens, pos)
         IN IF ~r.ok THEN [ok |-> FALSE, nodes |-> <<>>]
            ELSE parse_from(tokens, r.pos, Append(nodes, r.node))

parse(tokens) == parse_from(tokens, 0, <<>>)

(***************************************************************************)
(* Semantic analyzer (analyzer.rs)                                         *)
(***************************************************************************)
builtin_words ==
    {"+", "-", "*", "/", "DUP", "DROP", "SWAP", "OVER", ".", ".S", "CR", "ROT", "?DO",
     "DO", "LOOP", "I", "J", "LEAVE", "UNLOOP", "IF", "ELSE", "THEN", "BEGIN", "WHILE",
     "REPEAT", "UNTIL", "=", "<", ">", "<=", ">=", "<>", "0=", "0<", "0>", "0<>",
     "AND", "OR", "XOR", "NOT", "INVERT", "MOD", "ABS", "NEGATE", "MIN", "MAX", "EMIT",
     "KEY", "SPACE", "SPACES", "TYPE", "!", "@", "C!", "C@", "ALLOT", "HERE",
     "VARIABLE", "CONSTANT", "2DUP", "2DROP", "2SWAP", "2OVER", "NIP", "TUCK", "PICK",
     "ROLL", "RECURSE", "1-", "1+", "2+", "2-", "BL", "?DUP", ">R", "R>", "R@", "/MOD",
     "*/", "*/MOD", "WITHIN", "TRUE", "FALSE"}

\* analyze without the test for a redefined builtin
RECURSIVE analyze_allow_builtin(_, _, _)
analyze_allow_builtin(nodes, defined_words, defined_variables) ==
    IF nodes = <<>>
    THEN [ok |-> TRUE, word |-> "", defined_words |-> defined_words,
          defined_variables |-> defined_variables]
    ELSE
      LET node == Head(nodes)
      IN CASE node.t = "Definition" ->
                LET b == analyze_allow_builtin(node.body, defined_words \cup {node.w},
                                               defined_variables)
                IN IF ~b.ok THEN b
                   ELSE analyze_allow_builtin(Tail(nodes), b.defined_words,
                                              b.defined_variables)
           [] node.t = "Word" ->
                IF /\ node.w \notin builtin_words
                   /\ node.w \notin defined_words
                   /\ node.w \notin defined_variables
                THEN [ok |-> FALSE, word |-> node.w, defined_words |-> defined_words,
                      defined_variables |-> defined_variables]
                ELSE analyze_allow_builtin(Tail(nodes), defined_words, defined_variables)
           [] node.t = "VariableDeclaration" ->
                analyze_allow_builtin(Tail(nodes), defined_words,
                                      defined_variables \cup {node.w})
           [] OTHER -> analyze_allow_builtin(Tail(nodes), defined_words, defined_variables)

\* SemanticAnalyzer::analyze over a node list; defined_words and
\* defined_variables are the analyzer's tables.  The result names the word
\* of the first diagnostic.
RECURSIVE analyze(_, _, _)
analyze(nodes, defined_words, defined_variables) ==
    IF nodes = <<>>
    THEN [ok |-> TRUE, word |-> "", defined_words |-> defined_words,
          defined_variables |-> defined_variables]
    ELSE
      LET node == Head(nodes)
      IN CASE node.t = "Definition" ->
                IF node.w \in builtin_words
                THEN [ok |-> FALSE, word |-> node.w, defined_words |-> defined_words,
                      defined_variables |-> defined_variables]
                ELSE LET b == analyze(node.body, defined_words \cup {node.w},
                                      defined_variables)
                     IN IF ~b.ok THEN b
                        ELSE analyze(Tail(nodes), b.defined_words, b.defined_variables)
           [] node.t = "Word" ->
                IF /\ node.w \notin builtin_words
                   /\ node.w \notin defined_words
                   /\ node.w \notin defined_variables
                THEN [ok |-> FALSE, word |-> node.w, defined_words |-> defined_words,
                      defined_variables |-> defined_variables]
                ELSE analyze(Tail(nodes), defined_words, defined_variables)
           [] node.t = "VariableDeclaration" ->
                analyze(Tail(nodes), defined_words, defined_variables \cup {node.w})
           [] OTHER -> analyze(Tail(nodes), defined_words, defined_variables)

(***************************************************************************)
(* IR builder (ir.rs IRBuilder) and AST lowering (ir_lowering.rs).  The    *)
(* lowering state b holds the builder (current function name and code,     *)
(* function table, label counter) and the conditional and loop stacks.     *)
(***************************************************************************)
IRLowering_new ==
    [name |-> "main", cur |-> <<>>, functions |-> EmptyFn, label_counter |-> 0,
     conditional_stack |-> <<>>, loop_stack |-> <<>>]

emit_instr(b, i) == [b EXCEPT !.cur = Append(@, i)]

emit_comment(b, text) == emit_instr(b, Comment(text))

\* comment then instruction, the shape of most arms of lower_word
emit2(b, text, i) == emit_instr(emit_comment(b, text), i)

\* IRBuilder::start_function: the function being built is installed in the
\* table unless it is empty, and an empty function called name is begun
start_function(b, name) ==
    [b EXCEPT !.functions =
                 IF b.cur = <<>> THEN @
                 ELSE [f \in DOMAIN @ \cup {b.name} |-> IF f = b.name THEN b.cur ELSE @[f]],
              !.name = name, !.cur = <<>>]

\* IRBuilder::build
build(b) == [main |-> b.cur, functions |-> b.functions]

\* the words a turn may refer to besides those its own input defines:
\* IRLowering::add_known_word, called by Repl::process_input with the names
\* of compiler_ctx.definitions
add_known_word(definitions) == DOMAIN definitions

lower_word(b, name, word_definitions, known_words) ==
    CASE name = "+" -> emit2(b, "Addition", Op("Add"))
      [] name = "-" -> emit2(b, "Subtraction", Op("Sub"))
      [] name = "*" -> emit2(b, "Multiplication", Op("Mul"))
      [] name = "/" -> emit2(b, "Division", Op("Div"))
      [] name = "MOD" -> emit2(b, "Modulo", Op("Mod"))
      [] name = "NEGATE" -> emit2(b, "Negate", Op("Neg"))
      [] name = "DUP" -> emit2(b, "Duplicate top of stack", Op("Dup"))
      [] name = "DROP" -> emit2(b, "Drop top of stack", Op("Drop"))
      [] name = "SWAP" -> emit2(b, "Swap top two stack items", Op("Swap"))
      [] name = "OVER" -> emit2(b, "Copy second stack item to top", Op("Over"))
      [] name = "ROT" -> emit2(b, "Rotate top three stack items", Op("Rot"))
      [] name = "=" -> emit2(b, "Equal comparison", Op("Equal"))
      [] name = "<>" -> emit2(b, "Not equal comparison", Op("NotEqual"))
      [] name = "<" -> emit2(b, "Less than comparison", Op("Less"))
      [] name = ">" -> emit2(b, "Greater than comparison", Op("Greater"))
      [] name = "<=" -> emit2(b, "Less than or equal comparison", Op("LessEqual"))
      [] name = ">=" -> emit2(b, "Greater than or equal comparison", Op("GreaterEqual"))
      [] name = "AND" -> emit2(b, "Logical AND", Op("And"))
      [] name = "OR" -> emit2(b, "Logical OR", Op("Or"))
      [] name = "NOT" -> emit2(b, "Logical NOT", Op("Not"))
      [] name = "." -> emit2(b, "Print top of stack", Op("Print"))
      [] name = ".S" -> emit2(b, "Print entire stack", Op("PrintStack"))
      [] name = "EMIT" -> emit2(b, "Print character", Op("PrintChar"))
      [] name = "CR" -> emit_instr(emit2(b, "Print newline", Push(10)), Op("PrintChar"))
      [] name \in {"?DO", "DO"} ->
            LET c == emit2(b, IF name = "DO" THEN "DO loop" ELSE "Conditional DO loop",
                           DoLoop(b.label_counter, b.label_counter + 1))
            IN [emit_instr(c, Label(b.label_counter, "loop_start")) EXCEPT
                   !.label_counter = @ + 2,
                   !.loop_stack = Append(@, <<b.label_counter, b.label_counter + 1>>)]
      [] name = "LOOP" ->
            IF b.loop_stack # <<>>
            THEN [emit_instr(emit2(b, "LOOP", Loop(Last(b.loop_stack)[1])),
                       Label(Last(b.loop_stack)[2], "loop_end")) EXCEPT
                     !.loop_stack = Front(@)]
            ELSE emit_comment(emit_comment(b, "LOOP"), "ERROR: LOOP without matching DO")
      [] name \in {"I", "J"} -> emit2(b, "Loop index", Op("PushLoopIndex"))
      [] name = "IF" ->
            [emit2(b, "IF conditional", JumpIfNot(b.label_counter, "else")) EXCEPT
                !.label_counter = @ + 2,
                !.conditional_stack =
                    Append(@, [else_label |-> b.label_counter, has_else |-> TRUE,
                               endif_label |-> b.label_counter + 1])]
      [] name = "ELSE" ->
            \* the pair is popped before it is matched against (Some, _)
            IF b.conditional_stack = <<>>
            THEN emit_comment(emit_comment(b, "ELSE"), "ERROR: ELSE without matching IF")
            ELSE LET top == Last(b.conditional_stack)
                     c == emit_comment(b, "ELSE")
                 IN IF top.has_else
                    THEN [emit_instr(emit_instr(c, Jump(top.endif_label, "endif")),
                               Label(top.else_label, "else")) EXCEPT
                             !.conditional_stack =
                                 Append(Front(@), [top EXCEPT !.has_else = FALSE])]
                    ELSE [emit_comment(c, "ERROR: ELSE without matching IF") EXCEPT
                             !.conditional_stack = Front(@)]
      [] name = "THEN" ->
            IF b.conditional_stack = <<>>
            THEN emit_comment(emit_comment(b, "THEN (endif)"),
                              "ERROR: THEN without matching IF")
            ELSE LET top == Last(b.conditional_stack)
                     c == emit_comment(b, "THEN (endif)")
                     d == IF top.has_else THEN emit_instr(c, Label(top.else_label, "else")) ELSE c
                 IN [emit_instr(d, Label(top.endif_label, "endif")) EXCEPT
                        !.conditional_stack = Front(@)]
      [] name = "TYPE" -> emit2(b, "TYPE - print string", Op("PrintString"))
      [] name = "SPACE" -> emit_instr(emit2(b, "SPACE - print a space", Push(32)), Op("PrintChar"))
      [] name = "BL" -> emit2(b, "BL - push space character", Push(32))
      [] name = "KEY" -> emit2(b, "Read character", Op("ReadChar"))
      [] OTHER ->
            IF name \in word_definitions \cup known_words
            THEN emit2(b, "Call user-defined word", Call(name))
            ELSE emit2(b, "Unknown word", Nop)

\* lower_node over the nodes of a body or of the program's main part
RECURSIVE lower_nodes(_, _, _, _)
lower_nodes(b, nodes, word_definitions, known_words) ==
    IF nodes = <<>> THEN b
    ELSE LET node == Head(nodes)
             c == CASE node.t = "Number" -> emit2(b, "Push constant", Push(node.n))
                    [] node.t = "Word" -> lower_word(b, node.w, word_definitions, known_words)
                    [] OTHER -> b
         IN lower_nodes(c, Tail(nodes), word_definitions, known_words)

\* word_definitions.insert over the Program: the last definition of a name
\* is the one that is kept
definition_body(nodes, name) ==
    LET ks == {k \in 1..Len(nodes) : nodes[k].t = "Definition" /\ nodes[k].w = name}
    IN nodes[CHOOSE k \in ks : \A j \in ks : j <= k].body

lower_definition(b, name, body, word_definitions, known_words) ==
    LET s == emit_comment(start_function(b, name), "Definition")
        l == lower_nodes(s, body, word_definitions, known_words)
    IN start_function(emit_instr(l, Return), "main")

\* the second pass of lower_node(Program); the order in which the map of
\* definitions is walked is fixed here
RECURSIVE lower_definitions(_, _, _, _, _)
lower_definitions(b, names, nodes, word_definitions, known_words) ==
    IF names = {} THEN b
    ELSE LET name == CHOOSE x \in names : TRUE
         IN lower_definitions(
                lower_definition(b, name, definition_body(nodes, name),
                                 word_definitions, known_words),
                names \ {name}, nodes, word_definitions, known_words)

\* IRLowering::lower of a Program with the given nodes
lower(nodes, known_words) ==
    LET word_definitions == {nodes[k].w : k \in {j \in 1..Len(nodes) : nodes[j].t = "Definition"}}
        b0 == emit_comment(IRLowering_new, "Generated from Forth AST")
        b1 == lower_definitions(b0, word_definitions, nodes, word_definitions, known_words)
        b2 == lower_nodes(b1, SelectSeq(nodes, LAMBDA x : x.t # "Definition"),
                          word_definitions, known_words)
    IN build(b2)

(***************************************************************************)
(* REPL state (repl/state.rs, repl/loader.rs)                              *)
(***************************************************************************)
CompilerContext_new == [definitions |-> EmptyFn, variables |-> {}, lib_counter |-> 0]

REPLState_new == [runtime_ctx |-> RuntimeContext_new, compiler_ctx |-> CompilerContext_new]

LibraryLoader_new == [libraries |-> <<>>, lib_counter |-> 0]

(***************************************************************************)
(* LibraryLoader::compile_and_load (repl/loader.rs).  A library is named   *)
(* by the counter value it was compiled under; host_ok says whether the    *)
(* host compiler and the dynamic loader succeed on the generated source.   *)
(***************************************************************************)
\* the emitted function bodies refer to loop_stack for Loop, PushLoopIndex
\* and PushLoopLimit; generate_function_body declares it only when the body
\* has a DoLoop or is emitted as a state machine
declares_loop_stack(code) ==
    \E k \in 1..Len(code) : code[k].op \in {"DoLoop", "Jump", "JumpIf", "JumpIfNot"}

uses_loop_stack(code) ==
    \E k \in 1..Len(code) : code[k].op \in {"Loop", "PushLoopIndex", "PushLoopLimit"}

\* the generated source is accepted by the host compiler
well_formed(image) ==
    /\ uses_loop_stack(image.main) => declares_loop_stack(image.main)
    /\ \A f \in DOMAIN image.funcs :
          uses_loop_stack(image.funcs[f]) => declares_loop_stack(image.funcs[f])

\* compile_and_load that advances the counter only when the library loads
compile_and_load_count_on_success(ld, image, host_ok) ==
    IF ~(host_ok /\ well_formed(image))
    THEN [ok |-> FALSE, lib_name |-> ld.lib_counter, loader |-> ld]
    ELSE [ok |-> TRUE, lib_name |-> ld.lib_counter,
          loader |-> [ld EXCEPT
                         !.lib_counter = @ + 1,
                         !.libraries = Append(@, [name |-> ld.lib_counter,
                                                  funcs |-> image.funcs,
                                                  main |-> image.main,
                                                  defined_words |-> image.defined_words])]]

compile_and_load(ld, image, host_ok) ==
    LET lib_id == ld.lib_counter
        counted == [ld EXCEPT !.lib_counter = @ + 1]
    IN IF ~(host_ok /\ well_formed(image))
       THEN [ok |-> FALSE, lib_name |-> lib_id, loader |-> counted]
       ELSE [ok |-> TRUE, lib_name |-> lib_id,
             loader |-> [counted EXCEPT
                            !.libraries = Append(@, [name |-> lib_id,
                                                     funcs |-> image.funcs,
                                                     main |-> image.main,
                                                     defined_words |-> image.defined_words])]]

(***************************************************************************)
(* Repl::process_input (repl/mod.rs)                                       *)
(***************************************************************************)
\* the front end with a failed analysis not ending the turn
front_end_unchecked(input, cc) ==
    Eval(tokenize(input), LAMBDA lexed :
      IF ~lexed.ok THEN [outcome |-> "LexerError", nodes |-> <<>>, word |-> ""]
      ELSE Eval(parse(lexed.tokens), LAMBDA parsed :
        IF ~parsed.ok THEN [outcome |-> "ParserError", nodes |-> <<>>, word |-> ""]
        ELSE [outcome |-> "Ok", nodes |-> parsed.nodes, word |-> ""]))

\* steps 1 to 3: lexing, parsing and analysis seeded with the words and
\* variables of the compiler context; the first failure ends the turn
front_end(input, cc) ==
    Eval(tokenize(input), LAMBDA lexed :
      IF ~lexed.ok THEN [outcome |-> "LexerError", nodes |-> <<>>, word |-> ""]
      ELSE Eval(parse(lexed.tokens), LAMBDA parsed :
        IF ~parsed.ok THEN [outcome |-> "ParserError", nodes |-> <<>>, word |-> ""]
        ELSE Eval(analyze(parsed.nodes, DOMAIN cc.definitions, cc.variables),
                  LAMBDA analysis :
          IF ~analysis.ok
          THEN [outcome |-> "SemanticError", nodes |-> <<>>, word |-> analysis.word]
          ELSE [outcome |-> "Ok", nodes |-> parsed.nodes, word |-> ""])))

\* the runtime context handed to an entry point, and the one it leaves:
\* what a turn wrote and called is kept in the turn record.  TurnResult
\* carries, besides the new state and loader, the names compile_and_load
\* used, the index of the library loaded (0 for none) and the diagnostic.
begin_run(ctx) == [ctx EXCEPT !.out = <<>>, !.calls = <<>>, !.fuel = Fuel]

\* step 9 with the runtime context restored when the entry point fails
handle_result_rollback(st, run, ir, defined_words) ==
    IF run.res = "Ok"
    THEN [runtime_ctx |-> [run.ctx EXCEPT !.out = <<>>, !.calls = <<>>, !.fuel = Fuel],
          compiler_ctx |->
              [st.compiler_ctx EXCEPT
                  !.definitions =
                      [w \in DOMAIN @ \cup (defined_words \cap DOMAIN ir.functions) |->
                          IF w \in defined_words \cap DOMAIN ir.functions
                          THEN ir.functions[w] ELSE @[w]]]]
    ELSE st

\* step 9: on Ok the functions of the turn's program are stored as
\* definitions; on Err only the runtime context keeps what the run did
handle_result(st, run, ir, defined_words) ==
    IF run.res = "Ok"
    THEN [runtime_ctx |-> begin_run(run.ctx),
          compiler_ctx |->
              [st.compiler_ctx EXCEPT
                  !.definitions =
                      [w \in DOMAIN @ \cup (defined_words \cap DOMAIN ir.functions) |->
                          IF w \in defined_words \cap DOMAIN ir.functions
                          THEN ir.functions[w] ELSE @[w]]]]
    ELSE [st EXCEPT !.runtime_ctx = begin_run(run.ctx)]

TurnResult(st, ld, outcome, lib_names, lib, run, word) ==
    [state |-> st, loader |-> ld, outcome |-> outcome, lib_names |-> lib_names,
     lib |-> lib, calls |-> run.ctx.calls, out |-> run.ctx.out, res |-> run.res,
     word |-> word]

NoRun == [ctx |-> [calls |-> <<>>, out |-> <<>>], res |-> "none"]

process_input(input, host_ok, st, ld) ==
    Eval(front_end(input, st.compiler_ctx), LAMBDA fe :
      IF fe.outcome # "Ok"
      THEN TurnResult(st, ld, fe.outcome, <<>>, 0, NoRun, fe.word)
      ELSE
        Eval(optimize(lower(fe.nodes, add_known_word(st.compiler_ctx.definitions))),
             LAMBDA ir :
          Eval(compile_and_load(ld, generate(ir), host_ok), LAMBDA loaded :
            IF ~loaded.ok
            THEN TurnResult(st, loaded.loader, "CompileError", <<loaded.lib_name>>, 0, NoRun, "")
            ELSE
              Eval(repl_entry(Len(loaded.loader.libraries), begin_run(st.runtime_ctx),
                              loaded.loader.libraries),
                   LAMBDA run :
                TurnResult(handle_result(st, run, ir, DOMAIN ir.functions),
                           loaded.loader,
                           IF run.res = "Ok" THEN "Ok" ELSE "RuntimeError",
                           <<loaded.lib_name>>, Len(loaded.loader.libraries), run,
                           "")))))

(***************************************************************************)
(* Repl::handle_command (repl/mod.rs)                                      *)
(***************************************************************************)
Commands == {":quit", ":stack", ":clear", ":reset"}

\* handle_command with :reset replacing the loader along with the state
handle_command_reset_loader(cmd, st, ld) ==
    CASE cmd = ":quit" -> [state |-> st, loader |-> ld, quit |-> TRUE]
      [] cmd = ":clear" ->
            [state |-> [st EXCEPT !.runtime_ctx.stack = <<>>], loader |-> ld,
             quit |-> FALSE]
      [] cmd = ":reset" ->
            [state |-> REPLState_new, loader |-> LibraryLoader_new, quit |-> FALSE]
      [] OTHER -> [state |-> st, loader |-> ld, quit |-> FALSE]

handle_command(cmd, st, ld) ==
    CASE cmd = ":quit" -> [state |-> st, loader |-> ld, quit |-> TRUE]
      [] cmd = ":clear" ->
            [state |-> [st EXCEPT !.runtime_ctx.stack = <<>>], loader |-> ld,
             quit |-> FALSE]
      [] cmd = ":reset" -> [state |-> REPLState_new, loader |-> ld, quit |-> FALSE]
      [] OTHER -> [state |-> st, loader |-> ld, quit |-> FALSE]

(***************************************************************************)
(* State                                                                   *)
(***************************************************************************)
VARIABLES
    opt,      \* IROptimizer::optimize in progress: program, loop counters
    state,    \* REPLState: runtime_ctx and compiler_ctx
    loader,   \* LibraryLoader: libraries and lib_counter
    turn,     \* what the last REPL turn or command did
    hist,     \* session history: library names used, turns that defined words
    vm        \* an emitted entry point being executed instruction by instruction

vars == <<opt, state, loader, turn, hist, vm>>

(***************************************************************************)
(* The REPL session (Repl::run): each step reads one line, a Forth input   *)
(* or a meta-command.  turn records what the last step did; hist records   *)
(* the library names used so far and, since the last :reset, which         *)
(* libraries came from successful turns that defined a word and which      *)
(* library's entry point registered it last.                               *)
(***************************************************************************)
ReplInputs ==
    {<<":", "D", "2", "*", ";">>,
     <<"4", "d", ".">>,
     <<":", "D", "3", "*", ";">>,
     <<":", "D", "5", ";", "7", "1", "0", "/">>,
     <<":", "E", "D", "D", ";", "(c)", "1", "E", ".">>,
     <<"7", "1", "0", "/">>,
     <<"I">>,
     <<"FOO">>,
     <<")">>,
     <<":", "D", ":">>}

TurnNone ==
    [running |-> TRUE, kind |-> "none", input |-> <<>>, outcome |-> "none",
     compiled |-> FALSE, lib |-> 0, calls |-> <<>>, out |-> <<>>, res |-> "none",
     word |-> ""]

HistNew == [turns |-> 0, names |-> <<>>, definers |-> EmptyFn, registered |-> EmptyFn]

\* the words an entry point registers
registers(image) == image.defined_words \ {"main"}

ReplInput ==
    /\ turn.running
    /\ hist.turns < MaxTurns
    /\ \E input \in ReplInputs, host_ok \in BOOLEAN :
        \E r \in {process_input(input, host_ok, state, loader)} :
          LET ran == r.lib # 0
              regs == IF ran THEN registers(r.loader.libraries[r.lib]) ELSE {}
          IN /\ r.res # "Timeout"
             /\ state' = r.state
             /\ loader' = r.loader
             /\ turn' = [running |-> TRUE, kind |-> "input", input |-> input,
                         outcome |-> r.outcome, compiled |-> r.lib_names # <<>>,
                         lib |-> r.lib,
                         calls |-> r.calls, out |-> r.out, res |-> r.res, word |-> r.word]
             /\ hist' = [turns |-> hist.turns + 1,
                         names |-> hist.names \o r.lib_names,
                         definers |->
                             [w \in DOMAIN hist.definers
                                     \cup (IF r.outcome = "Ok" THEN regs ELSE {}) |->
                                 (IF w \in DOMAIN hist.definers THEN hist.definers[w] ELSE {})
                                 \cup (IF r.outcome = "Ok" /\ w \in regs THEN {r.lib} ELSE {})],
                         registered |->
                             [w \in DOMAIN hist.registered \cup regs |->
                                 IF w \in regs THEN r.lib ELSE hist.registered[w]]]
    /\ UNCHANGED <<opt, vm>>

ReplCommand ==
    /\ turn.running
    /\ hist.turns < MaxTurns
    /\ \E cmd \in Commands :
          LET r == handle_command(cmd, state, loader)
          IN /\ state' = r.state
             /\ loader' = r.loader
             /\ turn' = [TurnNone EXCEPT !.running = ~r.quit, !.kind = "command",
                                         !.input = <<cmd>>, !.outcome = "command"]
             /\ hist' = [hist EXCEPT
                            !.turns = @ + 1,
                            !.definers = IF cmd = ":reset" THEN EmptyFn ELSE @,
                            !.registered = IF cmd = ":reset" THEN EmptyFn ELSE @]
    /\ UNCHANGED <<opt, vm>>

ReplNext == ReplInput \/ ReplCommand

(***************************************************************************)
(* One REPL turn followed through the emitted entry point, one emitted     *)
(* instruction per step: the input is compiled as process_input does and   *)
(* __repl_entry is run on a context whose stack limit is MaxStack.         *)
(***************************************************************************)
VmAlphabet == {"0", "1", "IF", "ELSE", "THEN", "+", "."}

VmInputs == SeqsUpTo(VmAlphabet, MaxLen)

RuntimeContext_with_max_stack_size(max_size) ==
    [RuntimeContext_new EXCEPT !.max_stack_size = max_size]

VmIdle ==
    [pc |-> "idle", gen |-> "repl", input |-> <<>>, code |-> <<>>, pos |-> 0,
     ctx |-> RuntimeContext_new, ls |-> <<>>, res |-> "none",
     op |-> "none", word |-> "", val |-> 0]

VmStart(input) ==
    LET rejected == [VmIdle EXCEPT !.pc = "done", !.input = input, !.res = "rejected"]
    IN Eval(front_end(input, CompilerContext_new), LAMBDA fe :
         IF fe.outcome # "Ok" THEN rejected
         ELSE Eval(generate(optimize(lower(fe.nodes, {}))), LAMBDA image :
                IF well_formed(image)
                THEN [VmIdle EXCEPT !.pc = "run", !.input = input, !.code = image.main,
                                    !.ctx = RuntimeContext_with_max_stack_size(MaxStack)]
                ELSE rejected))

\* the entry point runs its next instruction, or returns Ok at its end
VmStep ==
    /\ vm.pc = "run"
    /\ vm' = IF vm.pos >= Len(vm.code)
             THEN [vm EXCEPT !.pc = "done", !.res = "Ok"]
             ELSE LET s == exec_step(vm.code, vm.pos, vm.ctx, vm.ls, <<>>)
                  IN [vm EXCEPT !.pos = s.pc, !.ctx = s.ctx, !.ls = s.ls,
                                !.res = IF s.halt THEN s.res ELSE @,
                                !.pc = IF s.halt THEN "done" ELSE @]
    /\ UNCHANGED <<opt, state, loader, turn, hist>>

VmNext == VmStep

(***************************************************************************)
(* Code emitted by the native generator (IRRustGenerator, ir_codegen.rs)   *)
(* for a function with loops: the instructions are emitted in order, a     *)
(* DoLoop opens `if start < limit { for loop_index in start..limit {`      *)
(* with the pair pushed on loop_stack, a Loop pops the pair and closes the *)
(* blocks.  The generated program keeps a Vec<i32> stack without a limit   *)
(* and unwraps what it pops; ctx.stack, ctx.out and ls stand for its       *)
(* stack, its stdout and its loop_stack.                                   *)
(***************************************************************************)
NativeOps == {"Push", "LoadConst", "Print", "PushLoopIndex", "PushLoopLimit",
              "DoLoop", "Loop", "Label", "Comment", "Nop"}

\* position of the Loop that closes the blocks opened by the DoLoop before
\* position pc, and of the DoLoop that opened the blocks a Loop closes
RECURSIVE MatchLoop(_, _, _)
MatchLoop(code, pc, depth) ==
    IF pc >= Len(code) THEN Len(code)
    ELSE IF At(code, pc).op = "Loop"
         THEN IF depth = 0 THEN pc ELSE MatchLoop(code, pc + 1, depth - 1)
         ELSE MatchLoop(code, pc + 1,
                        IF At(code, pc).op = "DoLoop" THEN depth + 1 ELSE depth)

RECURSIVE MatchDo(_, _, _)
MatchDo(code, pc, depth) ==
    IF pc < 0 THEN 0
    ELSE IF At(code, pc).op = "DoLoop"
         THEN IF depth = 0 THEN pc ELSE MatchDo(code, pc - 1, depth - 1)
         ELSE MatchDo(code, pc - 1,
                      IF At(code, pc).op = "Loop" THEN depth + 1 ELSE depth)

native_instruction(i, ctx, ls) ==
    CASE i.op \in {"Push", "LoadConst"} ->
            R([ctx EXCEPT !.stack = Append(@, i.n)], "Ok")
      [] i.op = "Print" ->
            IF ctx.stack = <<>> THEN R(ctx, "Panic")
            ELSE R([ctx EXCEPT !.stack = Front(@),
                               !.out = Append(@, <<"num", Last(ctx.stack)>>)], "Ok")
      [] i.op = "PushLoopIndex" ->
            R([ctx EXCEPT !.stack = Append(@, IF ls = <<>> THEN 0 ELSE Last(ls)[1])], "Ok")
      [] i.op = "PushLoopLimit" ->
            R([ctx EXCEPT !.stack = Append(@, IF ls = <<>> THEN 0 ELSE Last(ls)[2])], "Ok")
      [] OTHER -> R(ctx, "Ok")    \* Label, Comment, Nop: a comment or nothing

native_step(code, pc, ctx, ls) ==
    LET i == At(code, pc)
    IN CASE i.op = "DoLoop" ->
              IF Len(ctx.stack) < 2 THEN Step(pc, ctx, ls, "Panic", TRUE)
              ELSE LET start == Last(ctx.stack)
                       limit == Last(Front(ctx.stack))
                       popped == [ctx EXCEPT !.stack = Front(Front(@))]
                   IN IF start < limit
                      THEN Step(pc + 1, popped, Append(ls, <<start, limit>>), "Ok", FALSE)
                      ELSE Step(MatchLoop(code, pc + 1, 0) + 1, popped, ls, "Ok", FALSE)
         [] i.op = "Loop" ->
              LET loop_index == Last(ls)[1] + 1
                  limit == Last(ls)[2]
              IN IF loop_index < limit
                 THEN Step(MatchDo(code, pc - 1, 0) + 1, ctx,
                           Append(Front(ls), <<loop_index, limit>>), "Ok", FALSE)
                 ELSE Step(pc + 1, ctx, Front(ls), "Ok", FALSE)
         [] OTHER ->
              LET r == native_instruction(i, ctx, ls)
              IN Step(pc + 1, r.ctx, ls, r.res, r.res # "Ok")

\* execute() of the generated program runs its next instruction, or
\* returns Ok at its end
NativeStep ==
    /\ vm.pc = "native"
    /\ vm' = IF vm.pos >= Len(vm.code)
             THEN [vm EXCEPT !.pc = "done", !.res = "Ok"]
             ELSE LET s == native_step(vm.code, vm.pos, vm.ctx, vm.ls)
                  IN [vm EXCEPT !.pos = s.pc, !.ctx = s.ctx, !.ls = s.ls,
                                !.res = IF s.halt THEN s.res ELSE @,
                                !.pc = IF s.halt THEN "done" ELSE @]
    /\ UNCHANGED <<opt, state, loader, turn, hist>>

(***************************************************************************)
(* Counted loops: `limit start ?DO I . LOOP` and `limit start DO I . LOOP` *)
(* compiled by the native pipeline (lower, optimize, IRRustGenerator) and  *)
(* by the REPL pipeline, then run.                                         *)
(***************************************************************************)
Numeral(n) == <<"0", "1", "2", "3", "4", "5">>[n + 1]

LoopInput(kind, limit, start) ==
    <<Numeral(limit), Numeral(start), kind, "I", ".", "LOOP">>

LoopStart(gen, kind, limit, start) ==
    LET input == LoopInput(kind, limit, start)
        rejected == [VmIdle EXCEPT !.pc = "done", !.gen = "native", !.input = input,
                                   !.res = "rejected"]
    IN IF gen = "repl" THEN VmStart(input)
       ELSE Eval(front_end(input, CompilerContext_new), LAMBDA fe :
              IF fe.outcome # "Ok" THEN rejected
              ELSE Eval(optimize(lower(fe.nodes, {})), LAMBDA ir :
                     IF \A k \in 1..Len(ir.main) : ir.main[k].op \in NativeOps
                     THEN [VmIdle EXCEPT !.pc = "native", !.gen = "native",
                                         !.input = input, !.code = ir.main]
                     ELSE rejected))

LoopNext == VmStep \/ NativeStep

(***************************************************************************)
(* Input programs of the optimizer                                         *)
(***************************************************************************)
\* functions available to the generated main sequences: F is inlinable and
\* pushes one value, H contains a label and is not inlinable
BaseFunctions ==
    [f \in {"F", "H"} |->
        IF f = "F" THEN <<Push(5), Return>>
        ELSE <<Push(0), JumpIfNot(0, "else"), Push(7), Label(0, "else"),
               Label(1, "endif"), Return>>]

OptAlphabet ==
    {Push(0), Push(2), Op("Dup"), Op("Drop"), Op("Swap"), Op("Add"), Op("Mul"),
     Op("Not"), Call("F")}

GeneratedPrograms ==
    {[main |-> m, functions |-> BaseFunctions] : m \in SeqsUpTo(OptAlphabet, MaxLen)}

\* main sequences that exercise the remaining rewrite rules
ExtraMains ==
    {<<Comment("Push constant 6"), Push(6), Comment("Push constant 3"), Push(3),
       Comment("Logical AND"), Op("And"), Comment("Print top of stack"), Op("Print")>>,
     <<Push(6), Push(3), Op("Or")>>,
     <<Push(7), Push(2), Op("Div"), Push(7), Push(0), Op("Mod")>>,
     <<Push(4), Push(1), Op("Mul"), Nop, LoadConst(3), Op("Neg")>>,
     <<Push(1), Push(2), Op("Swap"), Op("Sub"), Op("Print")>>,
     <<Push(3), Push(4), Op("Less"), Call("H"), Call("F"), Op("Equal")>>,
     <<Push(1), JumpIfNot(2, "else"), Push(2), Push(3), Op("Add"), Jump(3, "endif"),
       Label(2, "else"), Push(9), Label(3, "endif"), Op("Print")>>,
     <<Push(3), Push(0), JumpIf(5, "skip"), Push(2), Op("Mul"), Label(5, "skip"),
       Nop, Push(1), Op("Drop"), Call("H")>>}

ExtraPrograms == {[main |-> m, functions |-> BaseFunctions] : m \in ExtraMains}

\* SWAP DUP SWAP DUP ... DROP SWAP DROP SWAP nested k deep: one level is
\* removed per pipeline iteration
RECURSIVE Nest(_)
Nest(k) ==
    IF k = 0 THEN <<>>
    ELSE IF k % 2 = 1 THEN <<Op("Swap")>> \o Nest(k - 1) \o <<Op("Swap")>>
    ELSE <<Op("Dup")>> \o Nest(k - 1) \o <<Op("Drop")>>

NestPrograms == {[main |-> Nest(k), functions |-> EmptyFn] : k \in 1..MaxNest}

\* n mutually recursive words W1 -> W2 -> ... -> Wn -> W1
WordName(k) == <<"W1", "W2", "W3", "W4", "W5", "W6", "W7">>[k]

Cycle(n) ==
    [main |-> <<Call(WordName(1))>>,
     functions |-> [w \in {WordName(k) : k \in 1..n} |->
                      LET k == CHOOSE j \in 1..n : WordName(j) = w
                      IN <<Call(WordName((k % n) + 1)), Return>>]]

CyclePrograms == {Cycle(n) : n \in 2..MaxCycle}

OptInputs == GeneratedPrograms \cup ExtraPrograms \cup NestPrograms \cup CyclePrograms

(***************************************************************************)
(* IROptimizer::optimize, one pass at a time.  The driver runs optimize on *)
(* the input program (round 1) and again on its result (round 2).          *)
(***************************************************************************)
OptIdle ==
    [pc |-> "idle", program |-> [main |-> <<>>, functions |-> EmptyFn],
     orig |-> [main |-> <<>>, functions |-> EmptyFn],
     first |-> [main |-> <<>>, functions |-> EmptyFn],
     before |-> [main |-> <<>>, functions |-> EmptyFn],
     iteration |-> 0, k |-> 1, any_changed |-> FALSE, round |-> 1,
     runs |-> 0, last |-> "none", steps |-> 0]

OptStart(P) == [OptIdle EXCEPT !.pc = "top", !.program = P, !.orig = P, !.before = P]

\* loop head: iteration += 1 and the cap check
OptBeginIteration ==
    /\ opt.pc = "top"
    /\ opt' = IF opt.iteration + 1 > max_iterations
              THEN [opt EXCEPT !.iteration = @ + 1, !.pc = "done"]
              ELSE [opt EXCEPT !.iteration = @ + 1, !.pc = "pass", !.k = 1,
                               !.any_changed = FALSE]
    /\ UNCHANGED <<state, loader, turn, hist, vm>>

\* the for loop without the convergence check after the last pass
OptRunPassNoCheck ==
    /\ opt.pc = "pass"
    /\ LET r == optimize_program(passes[opt.k], opt.program)
       IN opt' = [opt EXCEPT
                    !.program = r.program, !.before = opt.program,
                    !.last = passes[opt.k], !.steps = r.steps,
                    !.any_changed = opt.any_changed \/ r.changed,
                    !.k = IF opt.k = Len(passes) THEN 1 ELSE @ + 1,
                    !.runs = IF opt.k = Len(passes) THEN @ + 1 ELSE @,
                    !.pc = IF opt.k < Len(passes) THEN "pass" ELSE "top"]
    /\ UNCHANGED <<state, loader, turn, hist, vm>>

\* one pass of the for loop; after the last pass the convergence check
OptRunPass ==
    /\ opt.pc = "pass"
    /\ LET r == optimize_program(passes[opt.k], opt.program)
           any == opt.any_changed \/ r.changed
       IN opt' = [opt EXCEPT
                    !.program = r.program, !.before = opt.program,
                    !.last = passes[opt.k], !.steps = r.steps,
                    !.any_changed = any,
                    !.k = IF opt.k = Len(passes) THEN 1 ELSE @ + 1,
                    !.runs = IF opt.k = Len(passes) THEN @ + 1 ELSE @,
                    !.pc = IF opt.k < Len(passes) THEN "pass"
                           ELSE IF ~any THEN "done" ELSE "top"]
    /\ UNCHANGED <<state, loader, turn, hist, vm>>

\* optimize is called again on the optimized program
OptAgain ==
    /\ opt.pc = "done" /\ opt.round = 1
    /\ opt' = [opt EXCEPT !.round = 2, !.first = opt.program, !.iteration = 0,
                          !.pc = "top", !.runs = 0, !.last = "none",
                          !.before = opt.program, !.any_changed = FALSE]
    /\ UNCHANGED <<state, loader, turn, hist, vm>>

OptNext == OptBeginIteration \/ OptRunPass \/ OptAgain

(***************************************************************************)
(* Executing an IR program on an initial data stack: the program is        *)
(* emitted as one library and its entry point is run on a fresh context.   *)
(***************************************************************************)
InitStacks == {<<>>, <<3>>, <<3, 5>>}

Execute(P, S) ==
    repl_entry(1, [RuntimeContext_new EXCEPT !.stack = S], <<generate(P)>>)


Init ==
    /\ state = REPLState_new
    /\ loader = LibraryLoader_new
    /\ turn = TurnNone
    /\ hist = HistNew
    /\ opt = OptIdle
    /\ vm = VmIdle

Next == ReplNext

Spec == Init /\ [][Next]_vars

VmInit ==
    /\ vm \in {VmStart(input) : input \in VmInputs}
    /\ state = REPLState_new
    /\ loader = LibraryLoader_new
    /\ turn = TurnNone
    /\ hist = HistNew
    /\ opt = OptIdle

\* the emitted code runs without interruption: a step that can be taken is taken
SpecVm == VmInit /\ [][VmNext]_vars /\ WF_vars(VmStep)

LoopInit ==
    /\ vm \in {LoopStart(gen, kind, limit, start) :
                 gen \in {"repl", "native"}, kind \in {"?DO", "DO"},
                 limit \in 0..MaxBound, start \in 0..MaxBound}
    /\ opt = OptIdle
    /\ state = REPLState_new
    /\ loader = LibraryLoader_new
    /\ turn = TurnNone
    /\ hist = HistNew

SpecLoop == LoopInit /\ [][LoopNext]_vars

(***************************************************************************)
(* The runtime on its own: a RuntimeContext with a stack-size limit, on    *)
(* which push, the builtins, call_word and set_current_word are applied    *)
(* one after the other in any order.  vm.op, vm.word and vm.val record the *)
(* last operation, vm.res its result.                                      *)
(***************************************************************************)
\* the values pushed; an operation whose result leaves this set is not taken
RtValues == {-1, 0, 1}

\* A succeeds on a stack with room, F fails on an empty stack, G and N call
\* them one and two levels down
RtSource ==
    <<":", "A", "1", ";", ":", "F", "DROP", ";",
      ":", "G", "F", "A", ";", ":", "N", "G", "G", ";">>

\* the library of word functions, emitted without the optimizer so that
\* every call stays a call_word
RtLibraries == <<generate(lower(front_end(RtSource, CompilerContext_new).nodes, {}))>>

RtWords == RtLibraries[1].defined_words \ {"main"}

RtBuiltins ==
    {"dup", "drop_top", "swap", "over", "rot", "rot_rev", "nip", "tuck", "dup2",
     "drop2", "swap2", "over2", "dup_if_nonzero", "pick", "roll",
     "add", "sub", "mul", "div", "modulo", "negate", "inc", "dec",
     "eq", "ne", "lt", "gt", "le", "ge", "zero_eq", "zero_lt", "zero_gt",
     "and", "or", "xor", "invert", "print_top", "emit"}

RtCalls ==
    [op : {"push"}, word : {""}, val : RtValues]
    \cup [op : {"call_word"}, word : RtWords \cup {"U"}, val : {0}]
    \cup [op : {"set_current_word"}, word : {"N", "G"}, val : {0}]
    \cup [op : RtBuiltins, word : {""}, val : {0}]
    \cup [op : {"add_store"}, word : {"V"}, val : {0}]

\* the method of RuntimeContext that a call names
RtApply(c, ctx) ==
    CASE c.op = "push" -> push(ctx, c.val)
      [] c.op = "call_word" -> call_word(c.word, ctx, RtLibraries)
      [] c.op = "set_current_word" -> R([ctx EXCEPT !.loc = c.word], "Ok")
      [] c.op = "dup" -> dup(ctx)
      [] c.op = "drop_top" -> drop_top(ctx)
      [] c.op = "swap" -> swap(ctx)
      [] c.op = "over" -> over(ctx)
      [] c.op = "rot" -> rot(ctx)
      [] c.op = "rot_rev" -> rot_rev(ctx)
      [] c.op = "nip" -> nip(ctx)
      [] c.op = "tuck" -> tuck(ctx)
      [] c.op = "dup2" -> dup2(ctx)
      [] c.op = "drop2" -> drop2(ctx)
      [] c.op = "swap2" -> swap2(ctx)
      [] c.op = "over2" -> over2(ctx)
      [] c.op = "dup_if_nonzero" -> dup_if_nonzero(ctx)
      [] c.op = "pick" -> pick(ctx)
      [] c.op = "roll" -> roll(ctx)
      [] c.op = "add" -> add(ctx)
      [] c.op = "sub" -> sub(ctx)
      [] c.op = "mul" -> mul(ctx)
      [] c.op = "div" -> div(ctx)
      [] c.op = "modulo" -> modulo(ctx)
      [] c.op = "negate" -> negate(ctx)
      [] c.op = "inc" -> inc(ctx)
      [] c.op = "dec" -> dec(ctx)
      [] c.op = "eq" -> eq(ctx)
      [] c.op = "ne" -> ne(ctx)
      [] c.op = "lt" -> lt(ctx)
      [] c.op = "gt" -> gt(ctx)
      [] c.op = "le" -> le(ctx)
      [] c.op = "ge" -> ge(ctx)
      [] c.op = "zero_eq" -> zero_eq(ctx)
      [] c.op = "zero_lt" -> zero_lt(ctx)
      [] c.op = "zero_gt" -> zero_gt(ctx)
      [] c.op = "and" -> and(ctx)
      [] c.op = "or" -> or(ctx)
      [] c.op = "xor" -> xor(ctx)
      [] c.op = "invert" -> invert(ctx)
      [] c.op = "print_top" -> print_top(ctx)
      [] c.op = "emit" -> emit(ctx)
      [] c.op = "add_store" -> add_store(ctx, c.word)

\* one operation on the context; the stack is followed up to one value
\* past its limit
RtStep ==
    /\ vm.pc = "rt"
    /\ \E c \in RtCalls :
         \E r \in {RtApply(c, begin_run(vm.ctx))} :
            /\ \A k \in 1..Len(r.ctx.stack) : r.ctx.stack[k] \in RtValues
            /\ Len(r.ctx.stack) <= vm.ctx.max_stack_size + 1
            /\ vm' = [vm EXCEPT !.op = c.op, !.word = c.word, !.val = c.val,
                                !.ctx = [r.ctx EXCEPT !.fuel = Fuel], !.res = r.res]
    /\ UNCHANGED <<opt, state, loader, turn, hist>>

RtNext == RtStep

RtInit ==
    /\ vm = [VmIdle EXCEPT !.pc = "rt",
                           !.ctx = register_all(RuntimeContext_with_max_stack_size(MaxStack),
                                                RtWords, 1)]
    /\ opt = OptIdle
    /\ state = REPLState_new
    /\ loader = LibraryLoader_new
    /\ turn = TurnNone
    /\ hist = HistNew

SpecRt == RtInit /\ [][RtNext]_vars

(***************************************************************************)
(* The lexer and the parser on their own: an input line is lexed, and the  *)
(* tokens, if there are any, are parsed.  vm.input is the line, vm.code    *)
(* the tokens and then the nodes.                                          *)
(***************************************************************************)
MaxTokens == 4

FrontAlphabet ==
    {":", ";", "a", "1", "2147483647", "2147483648", "-2147483649",
     "999999999999999999999"}

\* Lexer::tokenize
LexStep ==
    /\ vm.pc = "lex"
    /\ \E l \in {tokenize(vm.input)} :
         vm' = [vm EXCEPT !.pc = IF l.ok THEN "parse" ELSE "front_done",
                          !.res = IF l.ok THEN "Lexed" ELSE "LexerError",
                          !.code = l.tokens]
    /\ UNCHANGED <<opt, state, loader, turn, hist>>

\* Parser::parse
ParseStep ==
    /\ vm.pc = "parse"
    /\ \E p \in {parse(vm.code)} :
         vm' = [vm EXCEPT !.pc = "front_done",
                          !.res = IF p.ok THEN "Parsed" ELSE "ParseError",
                          !.code = p.nodes]
    /\ UNCHANGED <<opt, state, loader, turn, hist>>

FrontNext == LexStep \/ ParseStep

FrontInit ==
    /\ vm \in {[VmIdle EXCEPT !.pc = "lex", !.input = input] :
                 input \in SeqsUpTo(FrontAlphabet, MaxTokens)}
    /\ opt = OptIdle
    /\ state = REPLState_new
    /\ loader = LibraryLoader_new
    /\ turn = TurnNone
    /\ hist = HistNew

SpecFront == FrontInit /\ [][FrontNext]_vars

(***************************************************************************)
(* The analyzer on its own: a Program of a few nodes is analyzed by an     *)
(* analyzer seeded, as process_input seeds it, with the words and the      *)
(* variables of the compiler context.  vm.code is the Program.             *)
(***************************************************************************)
MaxNodes == 3

AnalyzeNodes ==
    {Word("A"), Word("B"), Word("DUP"), Word("S"), Word("V"),
     Definition("A", <<Word("B"), Number(1)>>), Definition("A", <<Word("A")>>),
     Definition("B", <<>>), Definition("B", <<Word("A")>>),
     Definition("DUP", <<>>), VariableDeclaration("V")}

\* SemanticAnalyzer::analyze on the Program
AnalyzeStep ==
    /\ vm.pc = "analyze"
    /\ \E r \in {analyze(vm.code, DOMAIN state.compiler_ctx.definitions,
                         state.compiler_ctx.variables)} :
         vm' = [vm EXCEPT !.pc = "analyzed", !.word = r.word,
                          !.res = IF r.ok THEN "Ok" ELSE "AnalyzeError"]
    /\ UNCHANGED <<opt, state, loader, turn, hist>>

AnalyzeNext == AnalyzeStep

AnalyzeInit ==
    /\ vm \in {[VmIdle EXCEPT !.pc = "analyze", !.code = nodes] :
                 nodes \in SeqsUpTo(AnalyzeNodes, MaxNodes)}
    /\ state \in {[REPLState_new EXCEPT
                     !.compiler_ctx.definitions = [w \in words |-> <<>>],
                     !.compiler_ctx.variables = variables] :
                    words \in {{}, {"S"}}, variables \in {{}, {"V"}}}
    /\ opt = OptIdle
    /\ loader = LibraryLoader_new
    /\ turn = TurnNone
    /\ hist = HistNew

SpecAnalyze == AnalyzeInit /\ [][AnalyzeNext]_vars

(***************************************************************************)
(* 64-bit values.  The data stack holds i64.  Where the width matters a     *)
(* value is written as its eight bytes in two's complement, least          *)
(* significant first, and the arithmetic is done byte by byte; elsewhere   *)
(* the values are small integers, on which the same operations never       *)
(* leave the range.                                                        *)
(***************************************************************************)
\* the bytes of a small integer n (sign-extended above the fourth byte)
I64(n) ==
    <<n % 256, (n \div 256) % 256, (n \div 65536) % 256, (n \div 16777216) % 256,
      IF n < 0 THEN 255 ELSE 0, IF n < 0 THEN 255 ELSE 0,
      IF n < 0 THEN 255 ELSE 0, IF n < 0 THEN 255 ELSE 0>>

I64_MAX == <<255, 255, 255, 255, 255, 255, 255, 127>>

I64_MIN == <<0, 0, 0, 0, 0, 0, 0, 128>>

NotBytes(a) ==
    <<255 - a[1], 255 - a[2], 255 - a[3], 255 - a[4],
      255 - a[5], 255 - a[6], 255 - a[7], 255 - a[8]>>

\* bytes k.. of a + b + carry; the carry out of the last byte is dropped
RECURSIVE AddBytes(_, _, _, _)
AddBytes(a, b, k, carry) ==
    IF k > Len(a) THEN <<>>
    ELSE Eval(a[k] + b[k] + carry,
              LAMBDA s : <<s % 256>> \o AddBytes(a, b, k + 1, s \div 256))

wrapping_add(a, b) == AddBytes(a, b, 1, 0)

wrapping_sub(a, b) == AddBytes(a, NotBytes(b), 1, 1)

wrapping_neg(a) == wrapping_sub(I64(0), a)

\* bytes k.. of the product: column sums with carry, columns past the
\* eighth dropped
RECURSIVE MulBytes(_, _, _, _)
MulBytes(a, b, k, carry) ==
    IF k > Len(a) THEN <<>>
    ELSE Eval(SumSeq([i \in 1..k |-> a[i] * b[k + 1 - i]]) + carry,
              LAMBDA s : <<s % 256>> \o MulBytes(a, b, k + 1, s \div 256))

wrapping_mul(a, b) == MulBytes(a, b, 1, 0)

IsNegative(a) == a[8] >= 128

\* |a| as an unsigned 64-bit number
Magnitude(a) == IF IsNegative(a) THEN wrapping_neg(a) ELSE a

\* a < b as unsigned numbers
ULess(a, b) == \E k \in 1..8 : a[k] < b[k] /\ \A j \in (k + 1)..8 : a[j] = b[j]

Bit(a, i) == (a[(i \div 8) + 1] \div (2 ^ (i % 8))) % 2

\* unsigned long division, one bit of a at a time from bit i down to bit
\* stop: quotient q and remainder r so far
RECURSIVE UDivBits(_, _, _, _, _, _)
UDivBits(a, b, i, stop, q, r) ==
    IF i < stop THEN [q |-> q, r |-> r]
    ELSE Eval(AddBytes(r, r, 1, Bit(a, i)),
              LAMBDA r2 :
                IF ULess(r2, b)
                THEN Eval(AddBytes(q, q, 1, 0), LAMBDA q2 : UDivBits(a, b, i - 1, stop, q2, r2))
                ELSE Eval(<<AddBytes(q, q, 1, 1), wrapping_sub(r2, b)>>,
                          LAMBDA n : UDivBits(a, b, i - 1, stop, n[1], n[2])))

\* the same, byte k of a downwards
RECURSIVE UDivMod(_, _, _, _, _)
UDivMod(a, b, k, q, r) ==
    IF k < 0 THEN [q |-> q, r |-> r]
    ELSE Eval(UDivBits(a, b, 8 * k + 7, 8 * k, q, r),
              LAMBDA d : UDivMod(a, b, k - 1, d.q, d.r))

\* a / b and a % b of i64 for b # 0: the quotient is truncated towards zero,
\* the remainder has the sign of a; both panic on MIN / -1
i64_div_overflows(a, b) == a = I64_MIN /\ b = I64(-1)

i64_div(a, b) ==
    LET d == UDivMod(Magnitude(a), Magnitude(b), 7, I64(0), I64(0))
    IN IF IsNegative(a) # IsNegative(b) THEN wrapping_neg(d.q) ELSE d.q

i64_rem(a, b) ==
    LET d == UDivMod(Magnitude(a), Magnitude(b), 7, I64(0), I64(0))
    IN IF IsNegative(a) THEN wrapping_neg(d.r) ELSE d.r

\* add with a checked addition: an overflow of the 64-bit range is reported
add_checked(ctx) ==
    LET p == PopN(ctx, 2)
        a == Top(ctx, 1)
        b == Top(ctx, 0)
    IN IF p.res # "Ok" THEN p
       ELSE IF IsNegative(a) = IsNegative(b)
               /\ IsNegative(wrapping_add(a, b)) # IsNegative(a)
       THEN R(p.ctx, "Overflow")
       ELSE push(p.ctx, wrapping_add(a, b))

\* a.wrapping_add(b)
add_i64(ctx) == BinOp(ctx, LAMBDA a, b : wrapping_add(a, b))

sub_i64(ctx) == BinOp(ctx, LAMBDA a, b : wrapping_sub(a, b))

mul_i64(ctx) == BinOp(ctx, LAMBDA a, b : wrapping_mul(a, b))

\* pop b, pop a; DivisionByZero if b == 0, else push a / b
div_i64(ctx) ==
    LET p == PopN(ctx, 2)
        a == Top(ctx, 1)
        b == Top(ctx, 0)
    IN IF p.res # "Ok" THEN p
       ELSE IF b = I64(0) THEN R(p.ctx, "DivisionByZero")
       ELSE IF i64_div_overflows(a, b) THEN R(p.ctx, "Panic")
       ELSE push(p.ctx, i64_div(a, b))

modulo_i64(ctx) ==
    LET p == PopN(ctx, 2)
        a == Top(ctx, 1)
        b == Top(ctx, 0)
    IN IF p.res # "Ok" THEN p
       ELSE IF b = I64(0) THEN R(p.ctx, "DivisionByZero")
       ELSE IF i64_div_overflows(a, b) THEN R(p.ctx, "Panic")
       ELSE push(p.ctx, i64_rem(a, b))

\* a.wrapping_add(1), a.wrapping_sub(1)
inc_i64(ctx) == UnOp(ctx, LAMBDA a : wrapping_add(a, I64(1)))

dec_i64(ctx) == UnOp(ctx, LAMBDA a : wrapping_sub(a, I64(1)))

\* /MOD: pop b, pop a; DivisionByZero if b == 0, else a % b then a / b
divmod_i64(ctx) ==
    LET p == PopN(ctx, 2)
        a == Top(ctx, 1)
        b == Top(ctx, 0)
    IN IF p.res # "Ok" THEN p
       ELSE IF b = I64(0) THEN R(p.ctx, "DivisionByZero")
       ELSE IF i64_div_overflows(a, b) THEN R(p.ctx, "Panic")
       ELSE push([p.ctx EXCEPT !.stack = Append(@, i64_rem(a, b))], i64_div(a, b))

\* a + b leaves the 64-bit range
add_overflows(a, b) ==
    IsNegative(a) = IsNegative(b) /\ IsNegative(wrapping_add(a, b)) # IsNegative(a)

\* -a and a.abs(): on the minimum integer the operation overflows, which
\* panics in a build with overflow checks and wraps in one without
negate_i64(ctx, overflow_checks) ==
    LET p == PopN(ctx, 1)
        a == Top(ctx, 0)
    IN IF p.res # "Ok" THEN p
       ELSE IF a = I64_MIN /\ overflow_checks THEN R(p.ctx, "Panic")
       ELSE push(p.ctx, wrapping_neg(a))

abs_i64(ctx, overflow_checks) ==
    LET p == PopN(ctx, 1)
        a == Top(ctx, 0)
    IN IF p.res # "Ok" THEN p
       ELSE IF a = I64_MIN /\ overflow_checks THEN R(p.ctx, "Panic")
       ELSE push(p.ctx, Magnitude(a))

\* +!: memory[var] = current + n with the plain addition
add_store_i64(ctx, var, overflow_checks) ==
    LET p == PopN(ctx, 1)
        n == Top(ctx, 0)
    IN IF p.res # "Ok" THEN p
       ELSE IF var \notin DOMAIN ctx.memory THEN R(p.ctx, "InvalidMemoryAccess")
       ELSE IF add_overflows(ctx.memory[var], n) /\ overflow_checks THEN R(p.ctx, "Panic")
       ELSE R([p.ctx EXCEPT !.memory[var] = wrapping_add(@, n)], "Ok")

ArithApply(op, ctx, overflow_checks) ==
    CASE op = "add" -> add_i64(ctx)
      [] op = "sub" -> sub_i64(ctx)
      [] op = "mul" -> mul_i64(ctx)
      [] op = "div" -> div_i64(ctx)
      [] op = "modulo" -> modulo_i64(ctx)
      [] op = "inc" -> inc_i64(ctx)
      [] op = "dec" -> dec_i64(ctx)
      [] op = "divmod" -> divmod_i64(ctx)
      [] op = "negate" -> negate_i64(ctx, overflow_checks)
      [] op = "abs" -> abs_i64(ctx, overflow_checks)
      [] op = "add_store" -> add_store_i64(ctx, "V", overflow_checks)

(***************************************************************************)
(* The arithmetic builtins on full-width operands: a context holding two   *)
(* 64-bit values a and b (b on top) and a variable V of value a, on which   *)
(* one builtin is applied, in a build with or without overflow checks.     *)
(* vm.input keeps the operands.                                            *)
(***************************************************************************)
MaxArith == 2

\* small values, the ends of the range and their neighbours, 2^31 - 1, 2^32
ArithValues ==
    {I64(n) : n \in -MaxArith..MaxArith}
    \cup {I64_MAX, I64_MIN, wrapping_sub(I64_MAX, I64(1)), wrapping_add(I64_MIN, I64(1)),
          <<255, 255, 255, 127, 0, 0, 0, 0>>, <<0, 0, 0, 0, 1, 0, 0, 0>>}

ArithOps ==
    {"add", "sub", "mul", "inc", "dec", "div", "modulo", "divmod", "negate", "abs",
     "add_store"}

ArithStart(a, b) ==
    [VmIdle EXCEPT !.pc = "arith", !.input = <<a, b>>,
                   !.ctx = [RuntimeContext_new EXCEPT !.stack = <<a, b>>,
                                                      !.memory = [v \in {"V"} |-> a]]]

ArithStep ==
    /\ vm.pc = "arith"
    /\ \E op \in ArithOps, overflow_checks \in BOOLEAN :
         \E r \in {ArithApply(op, vm.ctx, overflow_checks)} :
            vm' = [vm EXCEPT !.pc = "arith_done", !.op = op, !.ctx = r.ctx, !.res = r.res]
    /\ UNCHANGED <<opt, state, loader, turn, hist>>

ArithNext == ArithStep

ArithInit ==
    /\ vm \in {ArithStart(a, b) : a \in ArithValues, b \in ArithValues}
    /\ opt = OptIdle
    /\ state = REPLState_new
    /\ loader = LibraryLoader_new
    /\ turn = TurnNone
    /\ hist = HistNew

SpecArith == ArithInit /\ [][ArithNext]_vars

OptInit ==
    /\ opt \in {OptStart(P) : P \in OptInputs}
    /\ state = REPLState_new
    /\ loader = LibraryLoader_new
    /\ turn = TurnNone
    /\ hist = HistNew
    /\ vm = VmIdle

SpecOpt == OptInit /\ [][OptNext]_vars

\* every step of optimize is eventually taken.  The third conjunct is
\* WF_vars(OptRunPass) with ENABLED <<OptRunPass>>_vars written as its guard
\* opt.pc = "pass" (the step always changes opt.k).
SpecOptFair ==
    /\ SpecOpt
    /\ WF_vars(OptBeginIteration)
    /\ WF_vars(OptAgain)
    /\ ([]<>(opt.pc # "pass") \/ []<><<OptRunPass>>_vars)

(***************************************************************************)
(* Properties of the REPL session (specification Spec)                     *)
(***************************************************************************)
\* a process_input step has just been taken
NewInputTurn == hist'.turns = hist.turns + 1 /\ turn'.kind = "input"

ParsedNodes(input) == parse(tokenize(input).tokens).nodes

\* the input refers to word W, at top level or inside a definition body
UsesWord(input, W) ==
    LET nodes == ParsedNodes(input)
    IN \E k \in 1..Len(nodes) :
          \/ nodes[k].t = "Word" /\ nodes[k].w = W
          \/ /\ nodes[k].t = "Definition"
             /\ \E j \in 1..Len(nodes[k].body) :
                   nodes[k].body[j].t = "Word" /\ nodes[k].body[j].w = W

DefinesWord(input, W) ==
    LET nodes == ParsedNodes(input)
    IN \E k \in 1..Len(nodes) : nodes[k].t = "Definition" /\ nodes[k].w = W

\* the library image contains a Call of W
HasCall(image, W) ==
    \/ \E k \in 1..Len(image.main) : image.main[k] = Call(W)
    \/ \E f \in DOMAIN image.funcs :
          \E k \in 1..Len(image.funcs[f]) : image.funcs[f][k] = Call(W)

FrontEndFails(input, cc) ==
    \/ ~tokenize(input).ok
    \/ ~parse(tokenize(input).tokens).ok
    \/ ~analyze(ParsedNodes(input), DOMAIN cc.definitions, cc.variables).ok

\* C2: if lexing, parsing or semantic analysis of an input fails,
\* process_input returns an error without invoking the host compiler, and
\* the compiler state, the runtime context, the list of loaded libraries
\* and the library-naming counter are exactly as before the turn.
C2_FrontEndFailureChangesNothing ==
    [][(NewInputTurn /\ FrontEndFails(turn'.input, state.compiler_ctx)) =>
        /\ turn'.outcome \in {"LexerError", "ParserError", "SemanticError"}
        /\ ~turn'.compiled
        /\ hist'.names = hist.names
        /\ state' = state
        /\ loader' = loader]_vars

\* a turn failed in analysis in a session that has definitions, a loaded
\* library and values on the stack
C2_Witness ==
    /\ turn.outcome = "SemanticError"
    /\ loader.libraries # <<>>
    /\ "D" \in DOMAIN state.compiler_ctx.definitions
    /\ state.runtime_ctx.stack # <<>>

\* C3: when the entry point of a turn returns a runtime error, the library
\* loaded for the turn stays in the loader's list, the data stack, the
\* variable memory and the word registry are as the entry point left them
\* at the error (the words of the library registered), the compiler
\* state's definitions and variables are unchanged, and the REPL keeps
\* running.
C3_RuntimeErrorKeepsEffects ==
    [][(NewInputTurn /\ turn'.outcome = "RuntimeError") =>
        LET lib == Len(loader.libraries) + 1
            run == repl_entry(lib, begin_run(state.runtime_ctx), loader'.libraries)
        IN /\ turn'.lib = lib
           /\ Len(loader'.libraries) = lib
           /\ SubSeq(loader'.libraries, 1, lib - 1) = loader.libraries
           /\ run.res \notin {"Ok", "Timeout"}
           /\ state'.runtime_ctx.stack = run.ctx.stack
           /\ state'.runtime_ctx.memory = run.ctx.memory
           /\ state'.runtime_ctx.words = run.ctx.words
           /\ \A w \in registers(loader'.libraries[lib]) :
                 state'.runtime_ctx.words[w] = [lib |-> lib, fn |-> w]
           /\ state'.compiler_ctx = state.compiler_ctx
           /\ turn'.running]_vars

\* a turn that defined D failed at run time: D is registered from the
\* turn's library, a value it pushed is on the stack, and D is no definition
C3_Witness ==
    /\ turn.outcome = "RuntimeError"
    /\ DefinesWord(turn.input, "D")
    /\ "D" \in DOMAIN state.runtime_ctx.words
    /\ state.runtime_ctx.words["D"].lib = turn.lib
    /\ state.runtime_ctx.stack # <<>>
    /\ "D" \notin DOMAIN state.compiler_ctx.definitions

\* C4: across turns and meta-commands (:clear and :reset included) the
\* loader's list of libraries only grows, no entry is removed or replaced,
\* and every function pointer in the word registry refers to a function of
\* a library in the list.
C4_LibrariesAppendOnly ==
    [][/\ Len(loader'.libraries) >= Len(loader.libraries)
       /\ SubSeq(loader'.libraries, 1, Len(loader.libraries)) = loader.libraries
       /\ \A w \in DOMAIN state'.runtime_ctx.words :
             LET func == state'.runtime_ctx.words[w]
             IN /\ func.lib \in 1..Len(loader'.libraries)
                /\ func.fn \in DOMAIN loader'.libraries[func.lib].funcs]_vars

\* :reset was given in a session with two loaded libraries
C4_Witness ==
    /\ turn.kind = "command" /\ turn.input = <<":reset">>
    /\ Len(loader.libraries) = 2
    /\ state.runtime_ctx.words = EmptyFn

\* C5: every call of compile_and_load uses a library name that no earlier
\* call of the session used, also after a failed host compilation and after
\* :reset, and the loader's counter never decreases.
C5_LibraryNamesUnique ==
    [][/\ loader'.lib_counter >= loader.lib_counter
       /\ \A k \in Len(hist.names) + 1..Len(hist'.names) :
             \A j \in 1..k - 1 : hist'.names[j] # hist'.names[k]]_vars

\* a turn compiled and ran right after a turn whose compile_and_load failed
C5_Witness ==
    /\ turn.outcome = "Ok"
    /\ hist.turns = 2
    /\ Len(hist.names) = 2
    /\ Len(loader.libraries) = 1

(***************************************************************************)
(* Property of the emitted entry point (specification SpecVm)              *)
(***************************************************************************)
\* C6: for every input accepted by the lexer, parser and analyzer that uses
\* only numbers, arithmetic, stack and output words and IF/ELSE/THEN,
\* executing the emitted entry point returns Ok or an error after finitely
\* many steps.
C6_EntryPointReturns == <>(vm.pc = "done")

\* the entry point is at a conditional jump whose label is placed nowhere
\* in the function, with 0 on top of the stack: the jump is taken to the
\* start of the function
C6_Witness ==
    /\ vm.pc = "run" /\ vm.pos < Len(vm.code)
    /\ At(vm.code, vm.pos).op = "JumpIfNot"
    /\ \A k \in 1..Len(vm.code) :
          ~(vm.code[k].op = "Label" /\ SameLabel(vm.code[k], At(vm.code, vm.pos)))
    /\ vm.ctx.stack # <<>> /\ Top(vm.ctx, 0) = 0

(***************************************************************************)
(* Properties of the optimizer (specifications SpecOpt and SpecOptFair)    *)
(***************************************************************************)
OptDone1 == opt.pc = "done" /\ opt.round = 1
OptDone2 == opt.pc = "done" /\ opt.round = 2

\* C7 (optimizer soundness): for every IR program P and every initial data
\* stack S, executing P and executing optimize(P) yield the same final data
\* stack and the same printed output.  Stated on the runs of P that return
\* Ok, where the two executions cannot differ by where an error stopped them.
C7_OptimizerSound ==
    OptDone1 =>
        \A S \in InitStacks :
            LET a == Execute(opt.orig, S)
                b == Execute(opt.program, S)
            IN a.res = "Ok" => a.ctx.stack = b.ctx.stack /\ a.ctx.out = b.ctx.out

\* C8 (optimizer idempotence): optimize(optimize(P)) = optimize(P).
C8_OptimizeIdempotent == OptDone2 => opt.program = opt.first

\* functions of a program, main included
FnNames(P) == DOMAIN P.functions \cup {"main"}
Body(P, f) == IF f = "main" THEN P.main ELSE P.functions[f]

\* C10 (as claimed): every pass, function inlining included, leaves the net
\* stack effect (sum of produces minus consumes) of every function unchanged.
C10_NetEffectPreserved ==
    opt.last # "none" =>
        \A f \in FnNames(opt.program) :
            stack_depth(Body(opt.program, f)) = stack_depth(Body(opt.before, f))

\* net effect of the callee bodies that inlining substitutes into a function
RECURSIVE InlinedEffect(_, _)
InlinedEffect(ins, inl) ==
    IF ins = <<>> THEN 0
    ELSE (IF ins[1].op = "Call" /\ ins[1].s \in DOMAIN inl
          THEN stack_depth(inl[ins[1].s]) ELSE 0)
         + InlinedEffect(Tail(ins), inl)

\* C10 (amended): constant folding, peephole, strength reduction and dead
\* code elimination leave the net stack effect of every function unchanged;
\* function inlining changes it by the net effect of the callee bodies it
\* substitutes for Call instructions (a Call itself counts as 0).
C10_NetEffectExceptInlining ==
    opt.last # "none" =>
        \A f \in FnNames(opt.program) :
            stack_depth(Body(opt.program, f)) =
                stack_depth(Body(opt.before, f))
                + (IF opt.last = "FunctionInlining"
                   THEN InlinedEffect(Body(opt.before, f), inlinable_functions(opt.before))
                   ELSE 0)

\* a rewriting pass other than inlining has just changed a function
C10_Witness ==
    /\ opt.last \in {"ConstantFolding", "Peephole", "StrengthReduction",
                     "DeadCodeElimination"}
    /\ opt.program # opt.before
    /\ stack_depth(opt.program.main) # 0

\* C9 (optimizer termination): optimize terminates for every IR program,
\* mutually recursive words included: the pipeline runs at most 10 times, a
\* further iteration starts only after one in which some pass reported a
\* change, and every pass finishes within a number of loop iterations that
\* is linear in the size of the program it is given.
C9_OptimizeTerminates ==
    /\ <>OptDone2
    /\ [](opt.runs <= max_iterations)
    /\ [](opt.pc = "top" /\ opt.iteration > 0 => opt.any_changed)
    /\ [](opt.last # "none" => opt.steps <= 3 * program_size(opt.before))

\* the cap stopped the optimizer on a program of mutually recursive words
C9_Witness ==
    /\ opt.pc = "done"
    /\ opt.iteration = max_iterations + 1
    /\ opt.orig \in CyclePrograms

\* the Label, Jump, JumpIf and JumpIfNot instructions of a function, in order
ControlFlow(ins) ==
    SelectSeq(ins, LAMBDA x : x.op \in {"Label", "Jump", "JumpIf", "JumpIfNot"})

\* C11: for every function of every IR program, the subsequence of Label,
\* Jump, JumpIf and JumpIfNot instructions is the same (same instructions,
\* same order, same count) before and after each pass and after the whole
\* optimize run.
C11_ControlFlowPreserved ==
    /\ opt.last # "none" =>
          /\ FnNames(opt.program) = FnNames(opt.before)
          /\ \A f \in FnNames(opt.program) :
                ControlFlow(Body(opt.program, f)) = ControlFlow(Body(opt.before, f))
    /\ opt.pc = "done" =>
          \A f \in FnNames(opt.program) :
              ControlFlow(Body(opt.program, f)) = ControlFlow(Body(opt.orig, f))

\* optimize has finished on a function that has jumps and labels and that
\* the passes made shorter
C11_Witness ==
    /\ OptDone1
    /\ Len(ControlFlow(opt.orig.main)) >= 4
    /\ Len(opt.program.main) < Len(opt.orig.main)

(***************************************************************************)
(* Properties of counted loops (specification SpecLoop)                    *)
(***************************************************************************)
LoopKind == vm.input[3]
LoopLimit == parse_i32(vm.input[1]).n
LoopStartIndex == parse_i32(vm.input[2]).n

\* what `I .` prints for the indices from, from+1, ..., to-1
RECURSIVE Indices(_, _)
Indices(from, to) ==
    IF from >= to THEN <<>> ELSE <<<<"num", from>>>> \o Indices(from + 1, to)

\* C12: for ?DO ... LOOP run with popped values (limit, start) the body runs
\* exactly max(0, limit - start) times, with I yielding start, start+1, ...,
\* limit-1 in that order, and not at all when start >= limit; for the code
\* of the native generator and of the REPL generator.
C12_QDoLoopCounts ==
    (vm.pc = "done" /\ LoopKind = "?DO") =>
        /\ vm.res = "Ok"
        /\ vm.ctx.out = Indices(LoopStartIndex, LoopLimit)

\* the entry point emitted by the REPL generator for `3 0 ?DO I . LOOP` has
\* returned after running the body once
C12_Witness ==
    /\ vm.pc = "done" /\ vm.gen = "repl" /\ vm.res = "Ok"
    /\ vm.input = LoopInput("?DO", 3, 0)
    /\ vm.ctx.out = <<<<"num", 0>>>>

\* C13: for DO ... LOOP the body runs at least once for every pair
\* (limit, start), start >= limit included.
C13_DoLoopRunsOnce ==
    (vm.pc = "done" /\ LoopKind = "DO") =>
        /\ vm.res = "Ok"
        /\ Len(vm.ctx.out) >= 1

\* the program emitted by the native generator for `2 2 DO I . LOOP` has
\* returned without running the body
C13_Witness ==
    /\ vm.pc = "done" /\ vm.gen = "native" /\ vm.res = "Ok"
    /\ vm.input = LoopInput("DO", 2, 2)
    /\ vm.ctx.out = <<>>


\* C14: after any sequence of RuntimeContext operations from an empty context
\* with a stack-size limit L > 0, the data stack never holds more than L values
C14_StackWithinLimit ==
    vm.pc = "rt" => Len(vm.ctx.stack) <= vm.ctx.max_stack_size

\* a dup2 on a full stack has reported StackOverflow
C14_Witness ==
    /\ vm.pc = "rt"
    /\ vm.op = "dup2"
    /\ vm.res = "StackOverflow"
    /\ Len(vm.ctx.stack) = vm.ctx.max_stack_size + 1


\* the comparison and logic builtins
ComparisonAndLogic ==
    {"eq", "ne", "lt", "gt", "le", "ge", "zero_eq", "zero_lt", "zero_gt",
     "and", "or", "xor", "invert"}

\* C15: every comparison and logic builtin leaves exactly -1 or 0 on top of
\* the data stack, whatever its operands
C15_FlagsOnly ==
    (vm.pc = "rt" /\ vm.op \in ComparisonAndLogic /\ vm.res = "Ok")
        => Top(vm.ctx, 0) \in {-1, 0}

\* AND of 1 and 1 has left 1
C15_Witness ==
    /\ vm.pc = "rt"
    /\ vm.op = "and"
    /\ vm.res = "Ok"
    /\ vm.ctx.stack = <<1>>

\* the comparisons, taken alone, leave flags
C15_ComparisonsLeaveFlags ==
    (vm.pc = "rt" /\ vm.res = "Ok"
       /\ vm.op \in {"eq", "ne", "lt", "gt", "le", "ge", "zero_eq", "zero_lt", "zero_gt"})
        => Top(vm.ctx, 0) \in {-1, 0}


\* the values that are the bytes of a small integer, and that integer
IsSmall(a) == \E n \in -MaxArith..MaxArith : a = I64(n)

ToInt(a) == CHOOSE n \in -MaxArith..MaxArith : a = I64(n)

\* results that wrap around the ends of the 64-bit range: <<op, a, b, result>>
WrapTable ==
    {<<"add", I64_MAX, I64(1), I64_MIN>>,
     <<"add", I64_MIN, I64(-1), I64_MAX>>,
     <<"add", I64_MAX, I64_MAX, I64(-2)>>,
     <<"add", I64_MIN, I64_MIN, I64(0)>>,
     <<"sub", I64_MIN, I64(1), I64_MAX>>,
     <<"sub", I64_MAX, I64(-1), I64_MIN>>,
     <<"sub", I64(0), I64_MIN, I64_MIN>>,
     <<"mul", I64_MAX, I64(2), I64(-2)>>,
     <<"mul", I64_MIN, I64(-1), I64_MIN>>,
     <<"mul", I64_MIN, I64(2), I64(0)>>,
     <<"mul", I64_MAX, I64_MAX, I64(1)>>,
     <<"mul", <<0, 0, 0, 0, 1, 0, 0, 0>>, <<0, 0, 0, 0, 1, 0, 0, 0>>, I64(0)>>}

\* C16: + - * 1+ 1- push the 64-bit two's-complement wrapped result for all
\* operands and report no error on overflow; / and MOD return DivisionByZero
\* exactly when the divisor on top of the stack is 0
C16_WrappingArithmetic ==
    vm.pc = "arith_done" =>
      LET a == vm.input[1]
          b == vm.input[2]
          top == Top(vm.ctx, 0)
      IN /\ vm.op \in {"add", "sub", "mul"} =>
              /\ vm.res = "Ok"
              /\ Len(vm.ctx.stack) = 1
              /\ (IsSmall(a) /\ IsSmall(b)) =>
                    top = I64(CASE vm.op = "add" -> ToInt(a) + ToInt(b)
                                [] vm.op = "sub" -> ToInt(a) - ToInt(b)
                                [] vm.op = "mul" -> ToInt(a) * ToInt(b))
              /\ \A t \in WrapTable :
                    (vm.op = t[1] /\ a = t[2] /\ b = t[3]) => top = t[4]
              /\ vm.op = "add" => wrapping_sub(top, b) = a
              /\ vm.op = "sub" => wrapping_add(top, b) = a
         /\ vm.op \in {"inc", "dec"} =>
              /\ vm.res = "Ok"
              /\ Len(vm.ctx.stack) = 2 /\ vm.ctx.stack[1] = a
              /\ IsSmall(b) =>
                    top = I64(IF vm.op = "inc" THEN ToInt(b) + 1 ELSE ToInt(b) - 1)
              /\ (vm.op = "inc" /\ b = I64_MAX) => top = I64_MIN
              /\ (vm.op = "dec" /\ b = I64_MIN) => top = I64_MAX
         /\ vm.op \in {"div", "modulo"} =>
              (vm.res = "DivisionByZero" <=> b = I64(0))

\* MAX + 1 has been added and has wrapped to MIN
C16_Witness ==
    /\ vm.pc = "arith_done"
    /\ vm.op = "add"
    /\ vm.input = <<I64_MAX, I64(1)>>
    /\ vm.res = "Ok"
    /\ vm.ctx.stack = <<I64_MIN>>


\* C17: call_word on a registered word returns, at any nesting depth and
\* whether the word succeeded or failed, with current_location as it was
\* before the call; on an unregistered name it returns UndefinedWord and
\* changes no part of the context
C17_CallWordRestoresLocation ==
    [][(vm.pc = "rt" /\ vm'.op = "call_word" /\ vm' # vm) =>
         /\ vm'.ctx.loc = vm.ctx.loc
         /\ vm'.word \notin DOMAIN vm.ctx.words =>
               /\ vm'.res = "UndefinedWord"
               /\ vm'.ctx = begin_run(vm.ctx)
         /\ vm'.word \in DOMAIN vm.ctx.words => vm'.res # "UndefinedWord"]_vars

\* N was called from inside G's location and failed two calls further down,
\* in F, on an empty stack
C17_Witness ==
    /\ vm.pc = "rt"
    /\ vm.op = "call_word" /\ vm.word = "N"
    /\ vm.res = "StackUnderflow"
    /\ vm.ctx.loc = "G"
    /\ Len(vm.ctx.calls) = 3

\* an unregistered name has been called
C17_UndefinedWitness ==
    /\ vm.pc = "rt"
    /\ vm.op = "call_word" /\ vm.word = "U"
    /\ vm.res = "UndefinedWord"


\* a token sequence with an EndDefinition outside a definition, a
\* StartDefinition inside one, or the end of the input inside one, read
\* from token k on with inside telling whether a ':' is open
RECURSIVE Malformed(_, _, _)
Malformed(tokens, k, inside) ==
    IF k > Len(tokens) THEN inside
    ELSE CASE tokens[k].t = "StartDefinition" -> inside \/ Malformed(tokens, k + 1, TRUE)
           [] tokens[k].t = "EndDefinition" -> ~inside \/ Malformed(tokens, k + 1, FALSE)
           [] OTHER -> Malformed(tokens, k + 1, inside)

\* C18: Parser::parse returns a ParseError for every token sequence that has
\* an EndDefinition outside a definition, a StartDefinition inside a
\* definition, or the end of the input inside a definition
C18_MalformedRejected ==
    (vm.pc = "front_done" /\ vm.res \in {"Parsed", "ParseError"}
       /\ Malformed(tokenize(vm.input).tokens, 1, FALSE))
        => vm.res = "ParseError"

\* `: a 1` has been parsed: the ';' never arrives and parse returns a Program
C18_Witness ==
    /\ vm.pc = "front_done"
    /\ vm.input = <<":", "a", "1">>
    /\ vm.res = "Parsed"
    /\ vm.code = <<Definition("A", <<Number(1)>>)>>

\* the two other cases, a ';' outside and a ':' inside a definition, are
\* rejected
RECURSIVE Misplaced(_, _, _)
Misplaced(tokens, k, inside) ==
    IF k > Len(tokens) THEN FALSE
    ELSE CASE tokens[k].t = "StartDefinition" -> inside \/ Misplaced(tokens, k + 1, TRUE)
           [] tokens[k].t = "EndDefinition" -> ~inside \/ Misplaced(tokens, k + 1, FALSE)
           [] OTHER -> Misplaced(tokens, k + 1, inside)

C18_MisplacedRejected ==
    (vm.pc = "front_done" /\ vm.res \in {"Parsed", "ParseError"}
       /\ Misplaced(tokenize(vm.input).tokens, 1, FALSE))
        => vm.res = "ParseError"

\* the digits of a lexeme without sign and leading zeros
RECURSIVE StripZeros(_)
StripZeros(ds) == IF Len(ds) > 1 /\ ds[1] = "0" THEN StripZeros(Tail(ds)) ELSE ds

\* an optional sign followed only by decimal digits, at least one
IsDecimal(chars) ==
    LET ds == IF chars[1] \in {"+", "-"} THEN Tail(chars) ELSE chars
    IN ds # <<>> /\ \A k \in 1..Len(ds) : IsDigit(ds[k])

\* the decimal lexeme's value lies outside -2147483648..2147483647: it has
\* more digits than the limit, or as many and is larger digit by digit
ExceedsI32(chars) ==
    LET ds == StripZeros(IF chars[1] \in {"+", "-"} THEN Tail(chars) ELSE chars)
        limit == IF chars[1] = "-" THEN Chars("2147483648") ELSE Chars("2147483647")
    IN \/ Len(ds) > Len(limit)
       \/ /\ Len(ds) = Len(limit)
          /\ \E k \in 1..Len(ds) :
                /\ DigitValue(ds[k]) > DigitValue(limit[k])
                /\ \A j \in 1..(k - 1) : ds[j] = limit[j]

\* C19: lexing a lexeme that is an optional sign followed only by decimal
\* digits, but whose value exceeds the integer range, fails with an error
C19_OverflowingNumeralRejected ==
    (vm.pc \in {"parse", "front_done"}
       /\ \E k \in 1..Len(vm.input) :
             IsDecimal(Chars(vm.input[k])) /\ ExceedsI32(Chars(vm.input[k])))
        => vm.res = "LexerError"

\* 2147483648 has been lexed: the token is a Word
C19_Witness ==
    /\ vm.pc = "parse"
    /\ vm.input = <<"2147483648">>
    /\ vm.res = "Lexed"
    /\ vm.code = <<Tok("Word", 0, "2147483648")>>


\* the definitions, word references and variable declarations of a node
\* list in the order in which the analyzer visits them
RECURSIVE Visits(_)
Visits(nodes) ==
    IF nodes = <<>> THEN <<>>
    ELSE LET node == Head(nodes)
             here == CASE node.t = "Definition" ->
                            <<[kind |-> "def", name |-> node.w]>> \o Visits(node.body)
                       [] node.t = "Word" -> <<[kind |-> "word", name |-> node.w]>>
                       [] node.t = "VariableDeclaration" ->
                            <<[kind |-> "var", name |-> node.w]>>
                       [] OTHER -> <<>>
         IN here \o Visits(Tail(nodes))

\* the names a Word visited as number k may refer to: builtins, seeded words
\* and variables, and what was defined or declared before it
KnownAt(ev, k) ==
    builtin_words \cup DOMAIN state.compiler_ctx.definitions
        \cup state.compiler_ctx.variables
        \cup {ev[j].name : j \in {i \in 1..(k - 1) : ev[i].kind \in {"def", "var"}}}

\* C20: analyze accepts an AST only if no Definition names a builtin and
\* every Word reference is, where it is visited, a builtin, a user word whose
\* Definition started earlier (its own included), a seeded word or a declared
\* variable; a reference to a word defined only later is rejected
C20_AnalyzeAcceptsOnlyResolved ==
    vm.pc = "analyzed" =>
      LET ev == Visits(vm.code)
      IN /\ vm.res = "Ok" =>
              \A k \in 1..Len(ev) :
                 /\ ev[k].kind = "def" => ev[k].name \notin builtin_words
                 /\ ev[k].kind = "word" => ev[k].name \in KnownAt(ev, k)
         /\ (\E k \in 1..Len(ev) :
                /\ ev[k].kind = "word"
                /\ ev[k].name \notin KnownAt(ev, k)
                /\ \E j \in (k + 1)..Len(ev) :
                      ev[j].kind = "def" /\ ev[j].name = ev[k].name)
              => (vm.res = "AnalyzeError" /\ vm.word \in {ev[k].name : k \in 1..Len(ev)})

\* a directly recursive definition, a use of it and a use of a seeded word
\* have been accepted
C20_Witness ==
    /\ vm.pc = "analyzed"
    /\ vm.code = <<Definition("A", <<Word("A")>>), Word("A"), Word("S")>>
    /\ vm.res = "Ok"

\* `: A B 1 ; : B ;` has been rejected for the B used before its definition
C20_ForwardWitness ==
    /\ vm.pc = "analyzed"
    /\ vm.code = <<Definition("A", <<Word("B"), Number(1)>>), Definition("B", <<>>)>>
    /\ vm.res = "AnalyzeError"
    /\ vm.word = "B"


(***************************************************************************)
(* Redefinition of a user word inside one program                          *)
(* (ir_lowering.rs lower_node, analyzer.rs, ir_optimizer.rs inlining)      *)
(***************************************************************************)
\* W . repeated n times
RECURSIVE Uses(_)
Uses(n) == IF n = 0 THEN <<>> ELSE <<"W", ".">> \o Uses(n - 1)

\* : W c1 ;  W . (before times)  : W c2 ;  W . (after times)
RedefInput(c1, c2, before, after) ==
    <<":", "W", Numeral(c1), ";">> \o Uses(before)
        \o <<":", "W", Numeral(c2), ";">> \o Uses(after)

\* one REPL turn on a fresh session with the program as its input
RedefTurn ==
    /\ turn.kind = "program"
    /\ \E r \in {process_input(turn.input, TRUE, REPLState_new, LibraryLoader_new)} :
         /\ turn' = [turn EXCEPT !.kind = "input", !.outcome = r.outcome,
                                 !.compiled = r.lib_names # <<>>, !.lib = r.lib,
                                 !.calls = r.calls, !.out = r.out, !.res = r.res,
                                 !.word = r.word]
         /\ state' = r.state
         /\ loader' = r.loader
    /\ UNCHANGED <<opt, hist, vm>>

RedefNext == RedefTurn

RedefInit ==
    /\ opt = OptIdle
    /\ state = REPLState_new
    /\ loader = LibraryLoader_new
    /\ hist = HistNew
    /\ vm = VmIdle
    /\ \E c1 \in 0..MaxBound, c2 \in 0..MaxBound, before \in 0..1, after \in 0..2 :
         turn = [TurnNone EXCEPT !.kind = "program",
                                 !.input = RedefInput(c1, c2, before, after)]

SpecRedef == RedefInit /\ [][RedefNext]_vars

\* the output of the program when each use of W runs the definition of W
\* that precedes it: cur is the constant of the latest definition read
RECURSIVE ShadowedOutput(_, _, _)
ShadowedOutput(input, k, cur) ==
    IF k > Len(input) THEN <<>>
    ELSE IF input[k] = ":" THEN ShadowedOutput(input, k + 4, parse_i32(input[k + 2]).n)
    ELSE <<<<"num", cur>>>> \o ShadowedOutput(input, k + 2, cur)

\* C21: a program that defines W twice is accepted, and each use of W runs
\* the most recent definition of W that precedes it: uses between the two
\* definitions print the first constant, uses after the second print the second
C21_RedefinitionShadowsLaterUses ==
    turn.kind = "input" =>
        /\ turn.outcome = "Ok"
        /\ turn.out = ShadowedOutput(turn.input, 1, 0)

\* a use of W between two different definitions has run and printed
C21_Witness ==
    /\ turn.kind = "input"
    /\ turn.outcome = "Ok"
    /\ turn.input = RedefInput(2, 3, 1, 1)
    /\ turn.out = <<<<"num", 3>>, <<"num", 3>>>>

\* the analyzer accepts the redefinition
C21_RedefinitionAccepted ==
    turn.kind = "input" => turn.outcome = "Ok"


(***************************************************************************)
(* Conditionals through both generators.  IRRustGenerator (ir_codegen.rs)  *)
(* emits a function as a program-counter state machine only when it has    *)
(* control flow and no loops; otherwise it emits the instructions in       *)
(* order, and generate_instruction turns a jump into a comment.            *)
(***************************************************************************)
has_loops(code) == \E k \in 1..Len(code) : code[k].op \in {"DoLoop", "Loop"}

has_control_flow(code) ==
    \E k \in 1..Len(code) : code[k].op \in {"Jump", "JumpIf", "JumpIfNot", "Label"}

\* label_to_pc: the pc (0-based) of the Label instruction of a label, the
\* last one inserted for its key; -1 when the key is not in the map
label_to_pc(code, j) ==
    LET placed == {k \in 1..Len(code) : code[k].op = "Label" /\ SameLabel(code[k], j)}
    IN IF placed = {} THEN -1
       ELSE (CHOOSE k \in placed : \A k2 \in placed : k2 <= k) - 1

\* generate_function_body_with_control_flow with the test of JumpIfNot and
\* JumpIf inverted
native_control_flow_step_inverted(code, pc, ctx, ls) ==
    LET i == At(code, pc)
        target_pc == label_to_pc(code, i)
    IN CASE i.op = "Label" -> Step(pc + 1, ctx, ls, "Ok", FALSE)
         [] i.op = "Jump" ->
              Step(IF target_pc >= 0 THEN target_pc ELSE pc + 1, ctx, ls, "Ok", FALSE)
         [] i.op \in {"JumpIf", "JumpIfNot"} ->
              IF ctx.stack = <<>> THEN Step(pc, ctx, ls, "Panic", TRUE)
              ELSE LET cond == Last(ctx.stack)
                       popped == [ctx EXCEPT !.stack = Front(@)]
                       taken == IF i.op = "JumpIf" THEN cond = 0 ELSE cond # 0
                   IN Step(IF target_pc >= 0 /\ taken THEN target_pc ELSE pc + 1,
                           popped, ls, "Ok", FALSE)
         [] i.op = "Return" -> Step(pc, ctx, ls, "Ok", TRUE)
         [] OTHER ->
              LET r == native_instruction(i, ctx, ls)
              IN Step(pc + 1, r.ctx, ls, r.res, r.res # "Ok")

\* generate_function_body_with_control_flow: one match arm per instruction
native_control_flow_step(code, pc, ctx, ls) ==
    LET i == At(code, pc)
        target_pc == label_to_pc(code, i)
    IN CASE i.op = "Label" -> Step(pc + 1, ctx, ls, "Ok", FALSE)
         [] i.op = "Jump" ->
              Step(IF target_pc >= 0 THEN target_pc ELSE pc + 1, ctx, ls, "Ok", FALSE)
         [] i.op \in {"JumpIf", "JumpIfNot"} ->
              IF ctx.stack = <<>> THEN Step(pc, ctx, ls, "Panic", TRUE)
              ELSE LET cond == Last(ctx.stack)
                       popped == [ctx EXCEPT !.stack = Front(@)]
                       taken == IF i.op = "JumpIf" THEN cond # 0 ELSE cond = 0
                   IN Step(IF target_pc >= 0 /\ taken THEN target_pc ELSE pc + 1,
                           popped, ls, "Ok", FALSE)
         [] i.op = "Return" -> Step(pc, ctx, ls, "Ok", TRUE)
         [] OTHER ->
              LET r == native_instruction(i, ctx, ls)
              IN Step(pc + 1, r.ctx, ls, r.res, r.res # "Ok")

\* IRRustGenerator::generate_function_body
native_function_body_step(code, pc, ctx, ls) ==
    IF has_control_flow(code) /\ ~has_loops(code)
    THEN native_control_flow_step(code, pc, ctx, ls)
    ELSE native_step(code, pc, ctx, ls)

\* execute() of the generated program runs its next instruction, or
\* returns Ok at its end
NativeFunctionStep ==
    /\ vm.pc = "native_fn"
    /\ vm' = IF vm.pos >= Len(vm.code)
             THEN [vm EXCEPT !.pc = "done", !.res = "Ok"]
             ELSE LET s == native_function_body_step(vm.code, vm.pos, vm.ctx, vm.ls)
                  IN [vm EXCEPT !.pos = s.pc, !.ctx = s.ctx, !.ls = s.ls,
                                !.res = IF s.halt THEN s.res ELSE @,
                                !.pc = IF s.halt THEN "done" ELSE @]
    /\ UNCHANGED <<opt, state, loader, turn, hist>>

\* the instructions the model of the native generator covers
BranchOps == NativeOps \cup {"Jump", "JumpIf", "JumpIfNot"}

\* The pipeline from the source line to the generated code, one stage per
\* step: the front end, lowering, the optimizer pass by pass (OptBeginIteration,
\* OptRunPass) and the generator chosen by vm.gen.
BranchRejected == [VmIdle EXCEPT !.pc = "done", !.res = "rejected"]

BranchFrontEnd ==
    /\ vm.pc = "front_end"
    /\ \E fe \in {front_end(vm.input, CompilerContext_new)} :
         vm' = IF fe.outcome # "Ok"
               THEN [BranchRejected EXCEPT !.gen = vm.gen, !.input = vm.input]
               ELSE [vm EXCEPT !.pc = "lower", !.code = fe.nodes]
    /\ UNCHANGED <<opt, state, loader, turn, hist>>

BranchLower ==
    /\ vm.pc = "lower"
    /\ \E ir \in {lower(vm.code, {})} :
         /\ opt' = OptStart(ir)
         /\ vm' = [vm EXCEPT !.pc = "optimize", !.code = <<>>]
    /\ UNCHANGED <<state, loader, turn, hist>>

BranchGenerate ==
    /\ vm.pc = "optimize"
    /\ opt.pc = "done"
    /\ vm' = IF vm.gen = "repl"
             THEN IF well_formed(generate(opt.program))
                  THEN [vm EXCEPT !.pc = "run", !.code = generate(opt.program).main,
                                  !.ctx = RuntimeContext_with_max_stack_size(MaxStack)]
                  ELSE [BranchRejected EXCEPT !.gen = vm.gen, !.input = vm.input]
             ELSE IF \A k \in 1..Len(opt.program.main) :
                        opt.program.main[k].op \in BranchOps
                  THEN [vm EXCEPT !.pc = "native_fn", !.code = opt.program.main]
                  ELSE [BranchRejected EXCEPT !.gen = vm.gen, !.input = vm.input]
    /\ UNCHANGED <<opt, state, loader, turn, hist>>

\* flag IF A THEN and flag IF A ELSE B THEN, where a branch prints its own
\* number or leaves it for the `.` after THEN
OneIf(f) ==
    {<<Numeral(f), "IF", "1", ".", "THEN", "9", ".">>,
     <<Numeral(f), "IF", "1", "ELSE", "2", "THEN", ".">>}

\* an IF nested in A or in B: the outer IF pops g, the inner IF pops f, and
\* the branch taken leaves its number on the stack
TwoIfs(f, g) ==
    {<<Numeral(f), Numeral(g), "IF", "IF", "1", "THEN", "ELSE", "2", "THEN">>,
     <<Numeral(f), Numeral(g), "IF", "IF", "1", "ELSE", "2", "THEN", "THEN">>,
     <<Numeral(f), Numeral(g), "IF", "1", "ELSE", "IF", "2", "THEN", "THEN">>,
     <<Numeral(f), Numeral(g), "IF", "IF", "1", "THEN", "THEN">>}

Conditionals ==
    UNION ({OneIf(f) : f \in 0..MaxBound}
           \cup {TwoIfs(f, g) : f \in 0..MaxBound, g \in 0..MaxBound})

\* a conditional followed by a counted loop that runs n times
WithLoop(f, n) == <<Numeral(f), "IF", "1", "THEN", Numeral(n), "0", "DO", "LOOP">>

BranchInputs ==
    Conditionals \cup {WithLoop(f, n) : f \in 0..MaxBound, n \in 1..2}

BranchNext ==
    \/ BranchFrontEnd
    \/ BranchLower
    \/ OptBeginIteration
    \/ OptRunPass
    \/ BranchGenerate
    \/ VmStep
    \/ NativeFunctionStep

BranchInit ==
    /\ vm \in {[VmIdle EXCEPT !.pc = "front_end", !.gen = gen, !.input = input] :
                 gen \in {"repl", "native"}, input \in BranchInputs}
    /\ opt = OptIdle
    /\ state = REPLState_new
    /\ loader = LibraryLoader_new
    /\ turn = TurnNone
    /\ hist = HistNew

SpecBranch == BranchInit /\ [][BranchNext]_vars

\* the jump at the current position is taken: a Jump always, a JumpIf on a
\* non-zero top of stack, a JumpIfNot on a zero top of stack
JumpTaken ==
    /\ vm.pc \in {"run", "native_fn"}
    /\ vm.pos < Len(vm.code)
    /\ LET i == At(vm.code, vm.pos)
       IN \/ i.op = "Jump"
          \/ i.op = "JumpIf" /\ vm.ctx.stack # <<>> /\ Last(vm.ctx.stack) # 0
          \/ i.op = "JumpIfNot" /\ vm.ctx.stack # <<>> /\ Last(vm.ctx.stack) = 0

\* the positions (0-based) where the label of instruction j is placed
PlacedAt(code, j) ==
    {k - 1 : k \in {n \in 1..Len(code) : code[n].op = "Label" /\ SameLabel(code[n], j)}}

\* C22: in a function that contains jumps or labels, with or without
\* DoLoop/Loop, a taken Jump, JumpIf or JumpIfNot moves the program counter
\* to the Label of its label (to the Label instruction or just past it)
C22_JumpsReachTheirLabel ==
    [][JumpTaken =>
          \E p \in PlacedAt(vm.code, At(vm.code, vm.pos)) : vm'.pos \in {p, p + 1}]_vars

\* the native program of `0 IF 1 THEN 1 0 DO LOOP` has run the part between
\* IF and THEN on a zero flag, and the flag is still on the stack
C22_Witness ==
    /\ vm.pc = "done"
    /\ vm.gen = "native"
    /\ vm.input = WithLoop(0, 1)
    /\ has_control_flow(vm.code) /\ has_loops(vm.code)
    /\ vm.ctx.stack = <<0, 1>>

\* Forth's reading of IF ... ELSE ... THEN on the token list: the position
\* of the ELSE or THEN that closes the IF whose body starts at k
RECURSIVE MatchElseOrThen(_, _, _)
MatchElseOrThen(input, k, depth) ==
    IF k > Len(input) THEN k
    ELSE IF input[k] = "IF" THEN MatchElseOrThen(input, k + 1, depth + 1)
    ELSE IF input[k] = "THEN"
         THEN IF depth = 0 THEN k ELSE MatchElseOrThen(input, k + 1, depth - 1)
    ELSE IF input[k] = "ELSE" /\ depth = 0 THEN k
    ELSE MatchElseOrThen(input, k + 1, depth)

\* the position of the THEN that closes the IF whose ELSE part starts at k
RECURSIVE MatchThen(_, _, _)
MatchThen(input, k, depth) ==
    IF k > Len(input) THEN k
    ELSE IF input[k] = "IF" THEN MatchThen(input, k + 1, depth + 1)
    ELSE IF input[k] = "THEN"
         THEN IF depth = 0 THEN k ELSE MatchThen(input, k + 1, depth - 1)
    ELSE MatchThen(input, k + 1, depth)

\* what a program of numbers, `.`, IF, ELSE and THEN leaves and prints: IF
\* pops the flag and runs the first part on non-zero, the ELSE part (if
\* any) on zero, and both continue after THEN
RECURSIVE ConditionalRun(_, _, _, _)
ConditionalRun(input, k, stack, out) ==
    IF k > Len(input) THEN [stack |-> stack, out |-> out]
    ELSE CASE input[k] = "IF" ->
                IF Last(stack) # 0
                THEN ConditionalRun(input, k + 1, Front(stack), out)
                ELSE ConditionalRun(input, MatchElseOrThen(input, k + 1, 0) + 1,
                                    Front(stack), out)
           [] input[k] = "ELSE" ->
                ConditionalRun(input, MatchThen(input, k + 1, 0) + 1, stack, out)
           [] input[k] = "THEN" -> ConditionalRun(input, k + 1, stack, out)
           [] input[k] = "." ->
                ConditionalRun(input, k + 1, Front(stack),
                               Append(out, <<"num", Last(stack)>>))
           [] OTHER ->
                ConditionalRun(input, k + 1, Append(stack, parse_i32(input[k]).n), out)

\* C23: a loop-free conditional emitted as a state machine, by either
\* generator, ends with Ok having popped each flag once, and has printed and
\* left on the stack exactly what the branch chosen by each flag prints and
\* leaves, followed by what comes after THEN: A runs iff the flag is
\* non-zero, B iff it is zero
C23_IfSelectsOneBranch ==
    (vm.pc = "done" /\ vm.input \in Conditionals /\ has_control_flow(vm.code)) =>
        /\ vm.res = "Ok"
        /\ vm.ctx.out = ConditionalRun(vm.input, 1, <<>>, <<>>).out
        /\ vm.ctx.stack = ConditionalRun(vm.input, 1, <<>>, <<>>).stack

\* the native state machine of `2 0 IF 1 ELSE IF 2 THEN THEN` took the ELSE
\* part of the outer IF and the first part of the inner IF
C23_Witness ==
    /\ vm.pc = "done"
    /\ vm.gen = "native"
    /\ has_control_flow(vm.code) /\ ~has_loops(vm.code)
    /\ vm.input = <<"2", "0", "IF", "1", "ELSE", "IF", "2", "THEN", "THEN">>
    /\ vm.ctx.stack = <<2>>

\* the code the REPL generator emits for `0 3 IF IF 1 ELSE 2 THEN THEN` took
\* the first part of the outer IF and the ELSE part of the inner IF
C23_ReplWitness ==
    /\ vm.pc = "done"
    /\ vm.gen = "repl"
    /\ has_control_flow(vm.code)
    /\ vm.input = <<"0", "3", "IF", "IF", "1", "ELSE", "2", "THEN", "THEN">>
    /\ vm.ctx.stack = <<2>>

\* the state machine of `0 IF 1 ELSE 2 THEN .` printed what its ELSE part left
C23_PrintWitness ==
    /\ vm.pc = "done"
    /\ vm.gen = "native"
    /\ vm.input = <<"0", "IF", "1", "ELSE", "2", "THEN", ".">>
    /\ vm.ctx.out = <<<<"num", 2>>>>

\* a JumpIfNot or JumpIf of a state machine pops exactly one value
C23_IfPopsOneValue ==
    [][(/\ vm.pc \in {"run", "native_fn"}
        /\ vm.input \in Conditionals
        /\ vm.pos < Len(vm.code)
        /\ At(vm.code, vm.pos).op \in {"JumpIf", "JumpIfNot"})
       => vm'.ctx.stack = Front(vm.ctx.stack)]_vars


\* C24: a builtin of RuntimeContext that returns an error leaves the data
\* stack, the return stack and the variable memory as they were before the call
C24_FailedBuiltinChangesNothing ==
    [][(vm'.op \in RtBuiltins \cup {"add_store"} /\ vm'.res # "Ok") =>
          /\ vm'.ctx.stack = vm.ctx.stack
          /\ vm'.ctx.rstack = vm.ctx.rstack
          /\ vm'.ctx.memory = vm.ctx.memory]_vars

\* div has returned DivisionByZero and the stack is empty: both operands,
\* which were there for the divisor to be read, are gone
C24_Witness ==
    /\ vm.pc = "rt"
    /\ vm.op = "div"
    /\ vm.res = "DivisionByZero"
    /\ vm.ctx.stack = <<>>

\* add_store has popped its operand and failed on the variable
C24_AddStoreWitness ==
    /\ vm.pc = "rt"
    /\ vm.op = "add_store"
    /\ vm.res = "InvalidMemoryAccess"
    /\ vm.ctx.stack = <<>>


\* C25: after every REPL turn the user words registered in the runtime
\* context are exactly the names of the compiler context's definitions
C25_RegistryMatchesDefinitions ==
    DOMAIN state.runtime_ctx.words = DOMAIN state.compiler_ctx.definitions

\* a turn that defined D and then failed at run time: D is registered and
\* callable, and the compiler context does not know it
C25_Witness ==
    /\ turn.kind = "input"
    /\ turn.input = <<":", "D", "5", ";", "7", "1", "0", "/">>
    /\ turn.outcome = "RuntimeError"
    /\ "D" \in DOMAIN state.runtime_ctx.words
    /\ "D" \notin DOMAIN state.compiler_ctx.definitions

\* every registered word has a definition
C25_RegisteredAreDefined ==
    DOMAIN state.runtime_ctx.words \subseteq DOMAIN state.compiler_ctx.definitions

\* every definition other than the function called main is registered
C25_DefinedAreRegistered ==
    DOMAIN state.compiler_ctx.definitions \ {"main"} \subseteq DOMAIN state.runtime_ctx.words

\* a successful turn has left a definition called main with no registered word
C25_MainWitness ==
    /\ turn.outcome = "Ok"
    /\ "main" \in DOMAIN state.compiler_ctx.definitions
    /\ "main" \notin DOMAIN state.runtime_ctx.words


(***************************************************************************)
(* IRLowering::lower_node on a Program, one function at a time: the first  *)
(* pass collects word_definitions, then each definition is lowered in the  *)
(* order the map yields (any order), then the remaining nodes into main.   *)
(* While a program is being lowered vm.code holds its nodes, vm.ctx the    *)
(* IRLowering (builder and the two stacks) and vm.ls the names still to be *)
(* lowered; the finished program is left in opt.program.                   *)
(***************************************************************************)
MaxWords == 4

\* bodies of the conditional words and a number
ConditionalBodies == SeqsUpTo({"1", "IF", "ELSE", "THEN"}, MaxWords)

\* pieces that open or close a control-flow frame
FramePieces ==
    {<<>>, <<"IF">>, <<"ELSE">>, <<"THEN">>, <<"DO">>, <<"?DO">>, <<"LOOP">>,
     <<"IF", "THEN">>, <<"DO", "LOOP">>}

LowerInputs ==
    ConditionalBodies
    \cup {<<":", "A">> \o body \o <<";">> : body \in ConditionalBodies}
    \cup {<<":", "A">> \o x \o <<";">> \o y : x \in FramePieces, y \in FramePieces}
    \cup {<<":", "A">> \o x \o <<";", ":", "B">> \o y \o <<";">> \o z :
             x \in FramePieces, y \in FramePieces, z \in {<<>>, <<"THEN">>, <<"LOOP">>}}
    \cup {<<w>> : w \in builtin_words}
    \cup {<<":", "A", w, ";", "A">> : w \in builtin_words}

\* the names of the Definitions of a Program
DefinedNames(nodes) ==
    {nodes[k].w : k \in {j \in 1..Len(nodes) : nodes[j].t = "Definition"}}

\* the front end, and the first pass of lower_node(Program)
LowerBegin ==
    /\ vm.pc = "lower"
    /\ \E fe \in {front_end(vm.input, CompilerContext_new)} :
         vm' = IF fe.outcome # "Ok"
               THEN [vm EXCEPT !.pc = "done", !.res = "rejected"]
               ELSE [vm EXCEPT !.pc = "lower_function", !.res = "Ok", !.code = fe.nodes,
                               !.ctx = emit_comment(IRLowering_new, "Generated from Forth AST"),
                               !.ls = DefinedNames(fe.nodes)]
    /\ UNCHANGED <<opt, state, loader, turn, hist>>

\* the second pass: lower_definition of one of the collected definitions
LowerDefinition ==
    /\ vm.pc = "lower_function"
    /\ \E name \in vm.ls :
         \E b \in {lower_definition(vm.ctx, name, definition_body(vm.code, name),
                                    DefinedNames(vm.code), {})} :
            vm' = [vm EXCEPT !.ctx = b, !.ls = @ \ {name}, !.word = name]
    /\ UNCHANGED <<opt, state, loader, turn, hist>>

\* the third pass: the nodes that are not definitions go to main, and the
\* builder's program is returned
LowerMain ==
    /\ vm.pc = "lower_function"
    /\ vm.ls = {}
    /\ \E b \in {lower_nodes(vm.ctx, SelectSeq(vm.code, LAMBDA x : x.t # "Definition"),
                             DefinedNames(vm.code), {})} :
         /\ vm' = [vm EXCEPT !.pc = "lowered", !.ctx = b, !.word = "main"]
         /\ opt' = [OptIdle EXCEPT !.pc = "lowered", !.program = build(b)]
    /\ UNCHANGED <<state, loader, turn, hist>>

LowerNext == LowerBegin \/ LowerDefinition \/ LowerMain

LowerInit ==
    /\ vm \in {[VmIdle EXCEPT !.pc = "lower", !.input = input] : input \in LowerInputs}
    /\ opt = OptIdle
    /\ state = REPLState_new
    /\ loader = LibraryLoader_new
    /\ turn = TurnNone
    /\ hist = HistNew

SpecLower == LowerInit /\ [][LowerNext]_vars

\* the words of a body, in order (numbers as "1")
WordsOf(nodes) ==
    [k \in 1..Len(nodes) |-> IF nodes[k].t = "Word" THEN nodes[k].w ELSE "1"]

\* the source words of function f of the program being lowered
SourceWords(f) ==
    IF f \in DefinedNames(vm.code)
    THEN WordsOf(definition_body(vm.code, f))
    ELSE WordsOf(SelectSeq(vm.code, LAMBDA x : x.t # "Definition"))

\* every IF of the body has its own THEN after it: IFs and THENs nest
RECURSIVE IfsClosed(_, _, _)
IfsClosed(ws, k, depth) ==
    IF k > Len(ws) THEN depth = 0
    ELSE IF ws[k] = "IF" THEN IfsClosed(ws, k + 1, depth + 1)
    ELSE IF ws[k] = "THEN" THEN depth > 0 /\ IfsClosed(ws, k + 1, depth - 1)
    ELSE IfsClosed(ws, k + 1, depth)

\* the instruction lists of the lowered program, by function name
LoweredFunctions ==
    [f \in DOMAIN opt.program.functions \cup {"main"} |->
        IF f = "main" THEN opt.program.main ELSE opt.program.functions[f]]

\* every label a Jump or JumpIfNot of code refers to is placed exactly once
\* in code, after the jump
LabelsPlacedOnceAfter(code) ==
    \A k \in 1..Len(code) :
        code[k].op \in {"Jump", "JumpIfNot"} =>
            LET placed == {n \in 1..Len(code) :
                              code[n].op = "Label" /\ SameLabel(code[n], code[k])}
            IN Cardinality(placed) = 1 /\ \A n \in placed : n > k

\* C26: in a function lowered from a body whose IFs are all closed by a
\* THEN, each label a Jump or JumpIfNot refers to is placed by exactly one
\* Label of that function, after the jump, however many ELSE words there are
C26_LabelsPlacedOnceAfterJump ==
    vm.pc = "lowered" =>
        \A f \in DOMAIN LoweredFunctions :
            IfsClosed(SourceWords(f), 1, 0) => LabelsPlacedOnceAfter(LoweredFunctions[f])

\* IF ELSE ELSE THEN has been lowered: the Jump of the first ELSE refers to
\* an endif label that main never places
C26_Witness ==
    /\ vm.pc = "lowered"
    /\ vm.input = <<"IF", "ELSE", "ELSE", "THEN">>
    /\ \E k \in 1..Len(opt.program.main) :
          /\ opt.program.main[k].op = "Jump"
          /\ \A n \in 1..Len(opt.program.main) :
                ~(opt.program.main[n].op = "Label"
                  /\ SameLabel(opt.program.main[n], opt.program.main[k]))

\* with at most one ELSE per IF the labels are placed once, after the jump
ElseCount(ws) == Cardinality({k \in 1..Len(ws) : ws[k] = "ELSE"})

C26_SingleElse ==
    (vm.pc = "lowered" /\ vm.input \in ConditionalBodies
        /\ IfsClosed(vm.input, 1, 0) /\ ElseCount(vm.input) <= 1)
    => LabelsPlacedOnceAfter(opt.program.main)


\* the instruction that creates the label of Label instruction l is in code:
\* IF creates else n and endif n + 1 and emits JumpIfNot(else n); DO and ?DO
\* create loop_start n and loop_end n + 1 and emit DoLoop(n, n + 1)
CreatedIn(code, l) ==
    \E k \in 1..Len(code) :
        CASE l.s = "else" -> code[k].op = "JumpIfNot" /\ code[k].n = l.n
          [] l.s = "endif" -> code[k].op = "JumpIfNot" /\ code[k].n = l.n - 1
          [] l.s = "loop_start" -> code[k].op = "DoLoop" /\ code[k].n = l.n
          [] l.s = "loop_end" -> code[k].op = "DoLoop" /\ code[k].m = l.n
          [] OTHER -> FALSE

\* C27: the conditional stack and the loop stack are empty whenever the
\* lowering of a definition body or of main begins, and every Label of a
\* lowered function was created by an IF, DO or ?DO of that same function
C27_FramesLocalToFunction ==
    /\ vm.pc = "lower_function" =>
          vm.ctx.conditional_stack = <<>> /\ vm.ctx.loop_stack = <<>>
    /\ vm.pc = "lowered" =>
          \A f \in DOMAIN LoweredFunctions :
             \A k \in 1..Len(LoweredFunctions[f]) :
                LoweredFunctions[f][k].op = "Label" =>
                    CreatedIn(LoweredFunctions[f], LoweredFunctions[f][k])

\* `: A IF ; THEN` has been lowered: the THEN of main has placed the labels
\* that the IF of A created
C27_Witness ==
    /\ vm.pc = "lowered"
    /\ vm.input = <<":", "A", "IF", ";", "THEN">>
    /\ \E k \in 1..Len(opt.program.main) :
          /\ opt.program.main[k].op = "Label"
          /\ ~CreatedIn(opt.program.main, opt.program.main[k])
          /\ CreatedIn(opt.program.functions["A"], opt.program.main[k])

\* main is about to be lowered with the frame of A's DO on the loop stack
C27_OpenFrameWitness ==
    /\ vm.pc = "lower_function"
    /\ vm.input = <<":", "A", "DO", ";", "LOOP">>
    /\ vm.ls = {}
    /\ vm.ctx.loop_stack # <<>>


\* code holds the Nop that lower_word emits under an `Unknown word` comment
HasUnknownWord(code) ==
    \E k \in 1..Len(code) - 1 :
        code[k] = Comment("Unknown word") /\ code[k + 1] = Nop

\* C28: no program that the analyzer accepts has a word lowered to a Nop
\* under an `Unknown word` comment
C28_BuiltinsAreLowered ==
    vm.pc = "lowered" =>
        \A f \in DOMAIN LoweredFunctions : ~HasUnknownWord(LoweredFunctions[f])

\* the analyzer has accepted `ABS`, a builtin, and main holds the Nop of an
\* unknown word
C28_Witness ==
    /\ vm.pc = "lowered"
    /\ vm.input = <<"ABS">>
    /\ "ABS" \in builtin_words
    /\ HasUnknownWord(opt.program.main)

\* the builtins for which lower_word has an arm
LoweredBuiltins ==
    {"+", "-", "*", "/", "MOD", "NEGATE", "DUP", "DROP", "SWAP", "OVER", "ROT",
     "=", "<>", "<", ">", "<=", ">=", "AND", "OR", "NOT", ".", ".S", "EMIT", "KEY",
     "CR", "?DO", "DO", "LOOP", "I", "J", "IF", "ELSE", "THEN", "TYPE", "SPACE", "BL"}

\* an accepted program of one word has an unknown word exactly when the
\* word is a builtin without an arm in lower_word
C28_UnknownExactlyWithoutArm ==
    (vm.pc = "lowered" /\ Len(vm.input) = 1 /\ vm.input[1] \in builtin_words) =>
        (HasUnknownWord(opt.program.main) <=> vm.input[1] \notin LoweredBuiltins)


\* C29: /, MOD, /MOD, NEGATE, ABS and +! end in Ok or in a ForthError for
\* all 64-bit operands: none of them aborts the process
C29_ArithmeticNeverAborts ==
    (vm.pc = "arith_done"
        /\ vm.op \in {"div", "modulo", "divmod", "negate", "abs", "add_store"})
    => vm.res # "Panic"

\* the minimum integer has been divided by -1 and the division has panicked
C29_Witness ==
    /\ vm.pc = "arith_done"
    /\ vm.op = "div"
    /\ vm.input = <<I64_MIN, I64(-1)>>
    /\ vm.res = "Panic"

\* NEGATE of the minimum integer: a panic in a build with overflow checks,
\* the minimum integer again in a build without
C29_NegatePanicWitness ==
    /\ vm.pc = "arith_done"
    /\ vm.op = "negate"
    /\ vm.input[2] = I64_MIN
    /\ vm.res = "Panic"

C29_NegateWrapWitness ==
    /\ vm.pc = "arith_done"
    /\ vm.op = "negate"
    /\ vm.input[2] = I64_MIN
    /\ vm.res = "Ok"
    /\ Top(vm.ctx, 0) = I64_MIN

\* the only aborts: a division of the minimum integer by -1, and in a build
\* with overflow checks the negation or absolute value of the minimum
\* integer and a +! that leaves the 64-bit range
C29_AbortsOnlyOnOverflow ==
    (vm.pc = "arith_done" /\ vm.res = "Panic") =>
        \/ vm.op \in {"div", "modulo", "divmod"} /\ vm.input = <<I64_MIN, I64(-1)>>
        \/ vm.op \in {"negate", "abs"} /\ vm.input[2] = I64_MIN
        \/ vm.op = "add_store" /\ add_overflows(vm.input[1], vm.input[2])


(***************************************************************************)
(* Constant folding on the full range of its operands.  The optimizer's    *)
(* constants are i32 and try_fold_binary_op, try_fold_unary_op and the     *)
(* peephole rule `a DUP +` compute with the plain operators of i32; the    *)
(* values are kept here as 8-byte two's-complement numbers, an i32 being   *)
(* one whose upper four bytes repeat its sign.  vm.input keeps a and b,    *)
(* vm.code the LoadConst that replaces the folded instructions.            *)
(***************************************************************************)
MaxFold == 2

I32_MAX_BYTES == <<255, 255, 255, 127, 0, 0, 0, 0>>

I32_MIN_BYTES == <<0, 0, 0, 128, 255, 255, 255, 255>>

\* the value is in the range of i32
FitsI32(x) ==
    \A k \in 5..8 : x[k] = (IF x[4] >= 128 THEN 255 ELSE 0)

\* the low 32 bits as an i32
WrapI32(x) ==
    [k \in 1..8 |-> IF k <= 4 THEN x[k] ELSE IF x[4] >= 128 THEN 255 ELSE 0]

\* the result of an i32 operation whose exact value is given: an overflow
\* panics in a build with overflow checks and wraps to 32 bits in one without
i32_result(exact, overflow_checks) ==
    IF FitsI32(exact) THEN [res |-> "Ok", n |-> exact]
    ELSE IF overflow_checks THEN [res |-> "Panic", n |-> exact]
    ELSE [res |-> "Ok", n |-> WrapI32(exact)]

\* try_fold_binary_op for Add, Sub, Mul; try_fold_unary_op for Neg; the
\* peephole rule Push(a) Dup Add -> LoadConst(a * 2)
fold_i32(op, a, b, overflow_checks) ==
    CASE op = "Add" -> i32_result(wrapping_add(a, b), overflow_checks)
      [] op = "Sub" -> i32_result(wrapping_sub(a, b), overflow_checks)
      [] op = "Mul" -> i32_result(wrapping_mul(a, b), overflow_checks)
      [] op = "Neg" -> i32_result(wrapping_neg(b), overflow_checks)
      [] op = "DupAdd" -> i32_result(wrapping_mul(b, I64(2)), overflow_checks)

FoldOps == {"Add", "Sub", "Mul", "Neg", "DupAdd"}

\* the constants the lexer produces: small ones, the ends of the range of
\* i32, their neighbours, 2^16 and 46341 (the first with a square past 2^31)
FoldValues ==
    {I64(n) : n \in -MaxFold..MaxFold}
    \cup {I32_MAX_BYTES, I32_MIN_BYTES, wrapping_sub(I32_MAX_BYTES, I64(1)),
          wrapping_add(I32_MIN_BYTES, I64(1)), <<0, 0, 1, 0, 0, 0, 0, 0>>,
          <<5, 181, 0, 0, 0, 0, 0, 0>>}

\* the pass replaces `a b op` (or `b op`, `b DUP +`) by one LoadConst
FoldStep ==
    /\ vm.pc = "fold"
    /\ \E op \in FoldOps, overflow_checks \in BOOLEAN :
         \E r \in {fold_i32(op, vm.input[1], vm.input[2], overflow_checks)} :
            vm' = [vm EXCEPT !.pc = "folded", !.op = op, !.res = r.res,
                             !.code = IF r.res = "Ok"
                                      THEN <<[op |-> "LoadConst", n |-> r.n]>>
                                      ELSE <<>>]
    /\ UNCHANGED <<opt, state, loader, turn, hist>>

FoldNext == FoldStep

FoldInit ==
    /\ vm \in {[VmIdle EXCEPT !.pc = "fold", !.input = <<a, b>>] :
                 a \in FoldValues, b \in FoldValues}
    /\ opt = OptIdle
    /\ state = REPLState_new
    /\ loader = LibraryLoader_new
    /\ turn = TurnNone
    /\ hist = HistNew

SpecFold == FoldInit /\ [][FoldNext]_vars

\* what the runtime leaves on top of the stack for the unfolded code: the
\* constants pushed as 64-bit values, then add, sub, mul, negate or dup add
RuntimeValue(op, a, b) ==
    LET ctx == [RuntimeContext_new EXCEPT !.stack = <<a, b>>]
        run == CASE op = "Add" -> add_i64(ctx)
                 [] op = "Sub" -> sub_i64(ctx)
                 [] op = "Mul" -> mul_i64(ctx)
                 [] op = "Neg" -> negate_i64(ctx, FALSE)
                 [] op = "DupAdd" -> add_i64([ctx EXCEPT !.stack = <<a, b, b>>])
    IN Top(run.ctx, 0)

\* C30: folding Add, Sub, Mul, Neg and `a DUP +` never aborts the compiler,
\* and the constant it stores is the value the runtime computes for the
\* same operands with its 64-bit wrapping arithmetic
C30_FoldingMatchesRuntime ==
    vm.pc = "folded" =>
        /\ vm.res = "Ok"
        /\ vm.code[1].n = RuntimeValue(vm.op, vm.input[1], vm.input[2])

\* 2147483647 1 + has been folded in a build without overflow checks: the
\* constant is -2147483648, the runtime computes 2147483648
C30_Witness ==
    /\ vm.pc = "folded"
    /\ vm.op = "Add"
    /\ vm.input = <<I32_MAX_BYTES, I64(1)>>
    /\ vm.res = "Ok"
    /\ vm.code[1].n = I32_MIN_BYTES
    /\ RuntimeValue("Add", I32_MAX_BYTES, I64(1)) = <<0, 0, 0, 128, 0, 0, 0, 0>>

\* the same folding aborts the compiler in a build with overflow checks
C30_PanicWitness ==
    /\ vm.pc = "folded"
    /\ vm.op = "Add"
    /\ vm.input = <<I32_MAX_BYTES, I64(1)>>
    /\ vm.res = "Panic"

\* the exact 64-bit value of the operation on a and b
ExactValue(op, a, b) ==
    CASE op = "Add" -> wrapping_add(a, b)
      [] op = "Sub" -> wrapping_sub(a, b)
      [] op = "Mul" -> wrapping_mul(a, b)
      [] op = "Neg" -> wrapping_neg(b)
      [] op = "DupAdd" -> wrapping_add(b, b)

\* folding agrees with the runtime whenever the result is in the range of i32
C30_FoldingMatchesWithinI32 ==
    (vm.pc = "folded" /\ FitsI32(ExactValue(vm.op, vm.input[1], vm.input[2]))) =>
        /\ vm.res = "Ok"
        /\ vm.code[1].n = RuntimeValue(vm.op, vm.input[1], vm.input[2])

=============================================================================
